---- MODULE Spec2Model ----
(***************************************************************************)
(* State-machine model of the crawl schedulers of the e-commerce crawler   *)
(* repository: EcommerceCrawler.crawl (priority frontier),                 *)
(* CloudCrawler.crawl (FIFO frontier) and BrowserCrawler._crawl_page       *)
(* (depth-first recursion guarded by robots rules).                        *)
(*                                                                         *)
(* URLs are sequences of string tokens, <<scheme, netloc, path tokens>>,   *)
(* so that urlparse, str.startswith and the substring tests of the code    *)
(* are computed on the value instead of being looked up.                   *)
(* Priorities are kept in hundredths (Scale) so that the float arithmetic  *)
(* of the scheduler is exact on integers.                                  *)
(***************************************************************************)
EXTENDS Integers, Sequences, FiniteSets, TLC

VARIABLES
    variant,        \* which crawler object this behaviour exercises
    pc,             \* position of the call: "idle", "loop", "done", "aborted"
    max_pages,      \* argument of crawl
    max_depth,      \* argument of crawl
    visited_urls,   \* self.visited_urls (all three crawlers)
    pages_data,     \* self.pages_data (EcommerceCrawler, CloudCrawler)
    all_links,      \* self.all_links (EcommerceCrawler, CloudCrawler)
    urls_to_visit,  \* local frontier list of crawl
    page_count,     \* local counter of crawl
    current,        \* the entry taken from the frontier by the last iteration
    outcome,        \* what the last iteration did with it
    fetch_count,    \* number of fetch_page / page.goto calls issued per url
    robots_data,    \* the dict of analyze_robots_txt (self.robots_data)
    robots_rules,   \* self.robots_rules (BrowserCrawler)
    urls_data,      \* self.urls_data (BrowserCrawler)
    links_data,     \* self.links_data (BrowserCrawler)
    stack,          \* activation records of the recursive _crawl_page
    fetch,          \* the running or last call of fetch_page
    twin,           \* two crawl calls of EcommerceCrawler on the same site
    scoring,        \* the running or last scoring of a link list
    prioritized,    \* the last run of the link prioritisation of crawl
    all_products,   \* self.all_products (EcommerceCrawler, CloudCrawler)
    robots_text     \* lines of the last document _parse_robots_txt has read

vars == <<variant, pc, max_pages, max_depth, visited_urls, pages_data,
          all_links, urls_to_visit, page_count, current, outcome,
          fetch_count, robots_data, robots_rules, urls_data, links_data,
          stack, fetch, twin, scoring, prioritized, all_products,
          robots_text>>

ecomVars == <<pages_data, all_links, urls_to_visit, page_count>>
browserVars == <<robots_rules, urls_data, links_data, stack>>
sessionVars == <<variant, max_pages, max_depth>>
unitVars == <<prioritized, all_products, robots_text>>

-----------------------------------------------------------------------------
(* Bounds of the model *)

MaxPagesBound == 2      \* max_pages ranges over 0..MaxPagesBound
MaxDepthBound == 2      \* max_depth ranges over -1..MaxDepthBound
MaxAnchors == 2         \* anchors on one fetched page
MaxRules == 2           \* allow rules, and disallow rules, of a rule set
MaxLines == 2           \* lines of a robots.txt document of CloudCrawler
MaxPagesDeep == 3       \* max_pages of the crawls that reach a page twice
MaxLinks == 1           \* links of a page whose links are prioritised
MaxProducts == 2        \* products extract_products finds on a page

-----------------------------------------------------------------------------
(* Generic sequence helpers standing for Python built-ins *)

None == <<>>

\* str.startswith / prefix test on token sequences
StartsWith(s, p) ==
    /\ Len(p) <= Len(s)
    /\ \A i \in 1..Len(p) : s[i] = p[i]

\* "pattern in url": the pattern occurs as a contiguous run of tokens
Contains(s, p) ==
    \E k \in 0..(Len(s) - Len(p)) : \A i \in 1..Len(p) : s[k + i] = p[i]

\* list.remove(x): drops the first element equal to x
RemoveAt(q, i) == SubSeq(q, 1, i - 1) \o SubSeq(q, i + 1, Len(q))

\* mutant: the entry is left in the list
ListRemove_Keep(q, x) == q

ListRemove(q, x) ==
    LET i == CHOOSE j \in 1..Len(q) :
                 /\ q[j] = x
                 /\ \A k \in 1..(j - 1) : q[k] # x
    IN  RemoveAt(q, i)

SeqsUpTo(S, n) == UNION { [1..k -> S] : k \in 0..n }

Min(a, b) == IF a <= b THEN a ELSE b

-----------------------------------------------------------------------------
(* URLs *)

\* tokens that begin the path part of a url
PathTokens == {"/", "/s?k=", "/dp/"}

\* index of the first path token of url u, Len(u) + 1 when there is none
PathStart(u) ==
    IF \E i \in 2..Len(u) : u[i] \in PathTokens
    THEN CHOOSE i \in 2..Len(u) :
             /\ u[i] \in PathTokens
             /\ \A k \in 2..(i - 1) : u[k] \notin PathTokens
    ELSE Len(u) + 1

\* urlparse(u).netloc and urlparse(u).path
Netloc(u) == SubSeq(u, 2, PathStart(u) - 1)
UrlPath(u) == SubSeq(u, PathStart(u), Len(u))

\* f"https://www.amazon.com/s?k={query}"
search_url == <<"https://", "www.", "amazon.com", "/s?k=", "laptop">>

Dp1 == <<"https://", "www.", "amazon.com", "/dp/", "B01">>
Search2 == <<"https://", "www.", "amazon.com", "/s?k=", "mouse">>
Offsite == <<"https://", "other.test", "/c">>
\* a page that matches none of the url patterns of crawl
Help == <<"https://", "www.", "amazon.com", "/", "help">>
\* a host outside amazon.com whose name contains the text 'amazon.com'
Lookalike == <<"https://", "amazon.com", ".evil.test", "/">>

\* hrefs (already resolved by urljoin) that an Amazon page may carry
AmazonHrefs == {search_url, Dp1, Search2, Offsite, Lookalike, Help}
AmazonUrls == {u \in AmazonHrefs : Contains(u, <<"amazon.com">>)}

\* <a href=... rel=...> elements of a page
Anchors ==
    {[href |-> Dp1, nofollow |-> FALSE],
     [href |-> Search2, nofollow |-> FALSE],
     [href |-> Offsite, nofollow |-> TRUE]}

\* what a fetched page offers to the extractors
TitleLens == {0}
DescLens == {0}
ProductCounts == {0}
StatusCodes == {200}

PageContents ==
    [anchors : SeqsUpTo(Anchors, MaxAnchors), title_len : TitleLens,
     desc_len : DescLens, nproducts : ProductCounts, status : StatusCodes]

\* a failure record or an empty body yields nothing to extract
EmptyContent ==
    [anchors |-> <<>>, title_len |-> 0, desc_len |-> 0, nproducts |-> 0,
     status |-> 0]

Scale == 100            \* priorities and scores are kept in hundredths

\* lines of a robots.txt document: directive (lower case) and value
Line(f, v) == [field |-> f, value |-> v]

-----------------------------------------------------------------------------
(* EcommerceCrawler *)

\* robots.txt documents www.amazon.com may answer with
AmazonRobotsDocs ==
    { <<Line("user-agent", <<"*">>), Line("disallow", <<"/dp/">>),
        Line("allow", <<"/s?k=">>), Line("disallow", <<>>)>> }

\* the line loop of analyze_robots_txt: every non-empty allow / disallow path
\* is kept, whatever the user-agent group
RECURSIVE RobotsPaths(_, _)
RobotsPaths(lines, field) ==
    IF lines = <<>> THEN <<>>
    ELSE LET l == Head(lines)
         IN  IF l.field = field /\ l.value # <<>>
             THEN <<l.value>> \o RobotsPaths(Tail(lines), field)
             ELSE RobotsPaths(Tail(lines), field)

\* self.robots_data = None
NoRobotsData == <<>>

\* seconds of a crawl-delay value
DelaySeconds(v) ==
    CASE v = <<"3">> -> 3
      [] v = <<"10">> -> 10
      [] OTHER -> 0

\* crawl_delay after the line loop: the value of the last crawl-delay
\* line, d when there is none
RECURSIVE CrawlDelay(_, _)
CrawlDelay(lines, d) ==
    IF lines = <<>> THEN d
    ELSE IF Head(lines).field = "crawl-delay"
    THEN CrawlDelay(Tail(lines), DelaySeconds(Head(lines).value))
    ELSE CrawlDelay(Tail(lines), d)

\* crawlability_score of EcommerceCrawler.analyze_robots_txt after a 200
\* response, in hundredths
CrawlabilityScore(lines) ==
    LET allowed == Len(RobotsPaths(lines, "allow"))
        total == Len(RobotsPaths(lines, "disallow")) + allowed
        base == IF total > 0 THEN (allowed * 100 * Scale) \div total
                ELSE 100 * Scale
        delay == CrawlDelay(lines, 0)
    IN  IF delay > 5 THEN (base * 7) \div 10
        ELSE IF delay > 2 THEN (base * 9) \div 10
        ELSE base

\* robots_data of analyze_robots_txt: after a 200 response, and after
\* another status or a request exception
RobotsData(ok, lines) ==
    IF ok
    THEN [status |-> "success",
          disallowed_paths |-> RobotsPaths(lines, "disallow"),
          allowed_paths |-> RobotsPaths(lines, "allow"),
          crawlability_score |-> CrawlabilityScore(lines)]
    ELSE [status |-> "error", disallowed_paths |-> <<>>,
          allowed_paths |-> <<>>, crawlability_score |-> 100 * Scale]

\* analyze_robots_txt, called on the crawler before crawl
E_AnalyzeRobots ==
    /\ variant = "ecommerce"
    /\ pc = "idle"
    /\ robots_data = NoRobotsData
    /\ \E ok \in BOOLEAN, doc \in AmazonRobotsDocs :
           robots_data' = RobotsData(ok, doc)
    /\ UNCHANGED <<sessionVars, unitVars, scoring, twin, fetch, pc, visited_urls, ecomVars, current, outcome,
                   fetch_count, browserVars>>

\* extract_links: keeps the anchors whose href contains 'amazon.com'
RECURSIVE extract_links(_)
extract_links(anchors) ==
    IF anchors = <<>> THEN <<>>
    ELSE LET a == Head(anchors)
             rest == extract_links(Tail(anchors))
         IN  IF Contains(a.href, <<"amazon.com">>)
             THEN <<[url |-> a.href, nofollow |-> a.nofollow,
                     disallow |-> FALSE]>> \o rest
             ELSE rest

\* page_score of crawl, in hundredths
PageScore(c) ==
    c.nproducts * 10 * Scale
    + (Min(c.title_len, 100) * Scale) \div 10
    + (Min(c.desc_len, 200) * Scale) \div 20

\* URL pattern priorities of crawl, first matching branch
BasePriority(url) ==
    IF Contains(url, <<"/dp/">>) THEN 80
    ELSE IF Contains(url, <<"/s?k=">>) THEN 70
    ELSE IF Contains(url, <<"/gp/bestsellers/">>) THEN 60
    ELSE IF Contains(url, <<"/gp/new-releases/">>) THEN 50
    ELSE IF Contains(url, <<"/gp/goldbox/">>) THEN 40
    ELSE 10

\* mutant: no depth penalty
LinkPriority_NoDepth(link, page_score, level) ==
    BasePriority(link.url) * Scale
    + Min((page_score * 2) \div 10, 20 * Scale)
    - (IF link.nofollow \/ link.disallow THEN 30 * Scale ELSE 0)

\* priority of one extracted link, in hundredths
LinkPriority(link, page_score, level) ==
    BasePriority(link.url) * Scale
    + Min((page_score * 2) \div 10, 20 * Scale)
    - level * 10 * Scale
    - (IF link.nofollow \/ link.disallow THEN 30 * Scale ELSE 0)

\* prioritized_links: one frontier candidate per extracted link
PrioritizedLinks(links, page_score, current_url, level) ==
    [i \in 1..Len(links) |->
        [priority |-> LinkPriority(links[i], page_score, level),
         url |-> links[i].url, referer |-> current_url, level |-> level + 1]]

\* entries appended to self.all_links for one page
LinkEdges(links, page_score, current_url, level) ==
    [i \in 1..Len(links) |->
        [source |-> current_url, target |-> links[i].url,
         nofollow |-> links[i].nofollow, disallow |-> links[i].disallow,
         priority |-> LinkPriority(links[i], page_score, level)]]

\* mutant: the last entry of maximal priority
MaxEntry_Last(q) ==
    LET i == CHOOSE j \in 1..Len(q) :
                 /\ \A k \in 1..Len(q) : q[k].priority <= q[j].priority
                 /\ \A k \in (j + 1)..Len(q) : q[k].priority < q[j].priority
    IN  q[i]

\* mutant: the frontier is served in insertion (discovery) order
MaxEntry_First(q) == q[1]

\* max(urls_to_visit, key=lambda x: x[0]): the first entry of maximal priority
MaxEntry(q) ==
    LET i == CHOOSE j \in 1..Len(q) :
                 /\ \A k \in 1..Len(q) : q[k].priority <= q[j].priority
                 /\ \A k \in 1..(j - 1) : q[k].priority < q[j].priority
    IN  q[i]

\* mutant: the url is not marked
VisitedAdd_Never(visited, url) == visited

\* "self.visited_urls.add(current_url)", ahead of the try block
VisitedAdd(visited, url) == visited \cup {url}

\* mutants: one of the two tests, or both, are missing
ShouldSkip_NoVisited(url, level, visited, maxd) == level > maxd
ShouldSkip_NoDepth(url, level, visited, maxd) == url \in visited
ShouldSkip_Never(url, level, visited, maxd) == FALSE

\* "if current_url in self.visited_urls or level > max_depth: continue"
ShouldSkip(url, level, visited, maxd) ==
    url \in visited \/ level > maxd

\* mutant: the length of the frontier is not tested
CanEnqueue_NoCap(e, visited, maxd, maxp, qlen) ==
    /\ e.url \notin visited
    /\ e.level <= maxd

\* condition under which a prioritized link is appended to urls_to_visit
CanEnqueue(e, visited, maxd, maxp, qlen) ==
    /\ e.url \notin visited
    /\ e.level <= maxd
    /\ qlen < maxp * 2

\* "for priority, (url, ref, lvl) in prioritized_links: ... append"
RECURSIVE Enqueue(_, _, _, _, _)
Enqueue(q, cands, visited, maxd, maxp) ==
    IF cands = <<>> THEN q
    ELSE LET e == Head(cands)
         IN  IF CanEnqueue(e, visited, maxd, maxp, Len(q))
             THEN Enqueue(Append(q, e), Tail(cands), visited, maxd, maxp)
             ELSE Enqueue(q, Tail(cands), visited, maxd, maxp)

\* page record built by fetch_page from a response; "'pagerank': 0.0"
PageRecord(url, referer, level, status, outlinks) ==
    [url |-> url, response_code |-> status, level |-> level,
     referer |-> referer, error |-> FALSE, outlinks |-> outlinks,
     pagerank |-> 0]

\* record returned by the "except Exception" branch of fetch_page
FailureRecord(url, referer, level) ==
    [url |-> url, response_code |-> 0, level |-> level,
     referer |-> referer, error |-> TRUE, outlinks |-> 0]

NoEntry == [priority |-> 0, url |-> None, referer |-> None, level |-> 0]

\* what one loop iteration did with the dequeued entry
Outcomes == {"none", "skipped", "page", "failed", "raised", "page_unsaved",
             "failed_unsaved", "page_raised",
             "external", "allowed", "disallowed"}

\* is_product_page of crawl
IsProductPage(url) ==
    \E p \in {"/s?k=", "/dp/", "/gp/product/"} : Contains(url, <<p>>)

\* the body seen by the extractors: products are only extracted on product
\* pages, and a failure record carries no html
Extracted(url, kind, c) ==
    IF kind = "failed" THEN EmptyContent
    ELSE [c EXCEPT !.nproducts = IF IsProductPage(url) THEN @ ELSE 0]

\* "Reset data structures" and the seed entry of crawl
E_Start ==
    /\ variant = "ecommerce"
    /\ pc = "idle"
    /\ visited_urls' = {}
    /\ all_links' = <<>>
    /\ pages_data' = <<>>
    /\ urls_to_visit' = <<[priority |-> 100 * Scale, url |-> search_url,
                           referer |-> None, level |-> 0]>>
    /\ page_count' = 0
    /\ pc' = "loop"
    /\ UNCHANGED <<sessionVars, unitVars, scoring, twin, fetch, current, outcome, fetch_count, robots_data,
                   browserVars>>

\* "while urls_to_visit and page_count < max_pages"
E_LoopGuard == urls_to_visit # <<>> /\ page_count < max_pages

\* one iteration that ends at "continue"
E_Skip ==
    /\ variant = "ecommerce"
    /\ pc = "loop"
    /\ E_LoopGuard
    /\ LET e == MaxEntry(urls_to_visit)
       IN  /\ ShouldSkip(e.url, e.level, visited_urls, max_depth)
           /\ urls_to_visit' = ListRemove(urls_to_visit, e)
           /\ current' = e
           /\ outcome' = "skipped"
    /\ UNCHANGED <<sessionVars, unitVars, scoring, twin, fetch, pc, visited_urls, pages_data, all_links,
                   page_count, fetch_count, robots_data, browserVars>>

\* one iteration that reaches the try block.  kind is what fetch_page and
\* the extractors do: "page" (a page record), "failed" (the failure record),
\* "raised" (an exception before any link is processed); unsaved tells that
\* a CSV write after pages_data.append raises.  contents is the set of
\* pages the site may answer with.
E_VisitFrom(contents) ==
    /\ variant = "ecommerce"
    /\ pc = "loop"
    /\ E_LoopGuard
    /\ LET e == MaxEntry(urls_to_visit)
           q == ListRemove(urls_to_visit, e)
           visited == VisitedAdd(visited_urls, e.url)
       IN  /\ ~ShouldSkip(e.url, e.level, visited_urls, max_depth)
           /\ current' = e
           /\ visited_urls' = visited
           /\ fetch_count' = [fetch_count EXCEPT ![e.url] = @ + 1]
           /\ \E kind \in {"page", "failed", "raised"}, c \in contents,
                 unsaved \in BOOLEAN :
                 IF kind = "raised"
                 THEN /\ outcome' = "raised"
                      /\ urls_to_visit' = q
                      /\ UNCHANGED <<pages_data, all_links, page_count>>
                 ELSE LET x == Extracted(e.url, kind, c)
                          links == extract_links(x.anchors)
                          score == PageScore(x)
                          rec == IF kind = "failed"
                                 THEN FailureRecord(e.url, e.referer, e.level)
                                 ELSE PageRecord(e.url, e.referer, e.level,
                                                 c.status, Len(links))
                      IN  /\ all_links' = all_links \o
                                 LinkEdges(links, score, e.url, e.level)
                          /\ urls_to_visit' =
                                 Enqueue(q, PrioritizedLinks(links, score,
                                                             e.url, e.level),
                                         visited, max_depth, max_pages)
                          /\ pages_data' = Append(pages_data, rec)
                          /\ page_count' = IF unsaved THEN page_count
                                           ELSE page_count + 1
                          /\ outcome' = IF unsaved
                                        THEN IF kind = "page"
                                             THEN "page_unsaved"
                                             ELSE "failed_unsaved"
                                        ELSE kind
    /\ UNCHANGED <<sessionVars, unitVars, scoring, twin, fetch, pc, robots_data, browserVars>>

\* an iteration on a site whose pages are PageContents
E_Visit == E_VisitFrom(PageContents)

\* pages that link to the second search page with and without rel=nofollow
DeepAnchors ==
    {[href |-> Dp1, nofollow |-> FALSE],
     [href |-> Search2, nofollow |-> FALSE],
     [href |-> Search2, nofollow |-> TRUE]}

DeepContents ==
    [anchors : SeqsUpTo(DeepAnchors, MaxAnchors), title_len : TitleLens,
     desc_len : DescLens, nproducts : ProductCounts, status : StatusCodes]

\* an iteration on a site whose pages are DeepContents
E_VisitDeep == E_VisitFrom(DeepContents)

\* pages of a site that links to a product page and to the lookalike host
LookalikeAnchors ==
    {[href |-> Dp1, nofollow |-> FALSE],
     [href |-> Lookalike, nofollow |-> FALSE]}

LookalikeContents ==
    [anchors : SeqsUpTo(LookalikeAnchors, MaxAnchors), title_len : TitleLens,
     desc_len : DescLens, nproducts : ProductCounts, status : StatusCodes]

\* an iteration on that site
E_VisitLookalike == E_VisitFrom(LookalikeContents)

\* "page['title'] for page in self.pages_data if page['url'] == url" of the
\* sitemap raises KeyError on a failure record, which has no 'title' key
SitemapRaises(records, visited) ==
    \E i \in 1..Len(records) : records[i].error /\ records[i].url \in visited

\* loop exit, _calculate_pagerank, the sitemap and the graph, and return;
\* "aborted" when crawl ends with an exception instead of returning
E_Finish ==
    /\ variant = "ecommerce"
    /\ pc = "loop"
    /\ ~E_LoopGuard
    /\ pc' = IF SitemapRaises(pages_data, visited_urls) THEN "aborted"
             ELSE "done"
    /\ UNCHANGED <<sessionVars, unitVars, scoring, twin, fetch, visited_urls, ecomVars, current, outcome,
                   fetch_count, robots_data, browserVars>>

-----------------------------------------------------------------------------
(* CloudCrawler *)

\* CloudCrawler.extract_links: keeps the anchors whose href contains
\* 'amazon.com'; nofollow is always False
RECURSIVE cloud_extract_links(_, _)
cloud_extract_links(anchors, base_url) ==
    IF anchors = <<>> THEN <<>>
    ELSE LET a == Head(anchors)
             rest == cloud_extract_links(Tail(anchors), base_url)
         IN  IF Contains(a.href, <<"amazon.com">>)
             THEN <<[source |-> base_url, target |-> a.href,
                     nofollow |-> FALSE]>> \o rest
             ELSE rest

\* "Only add Amazon product or search pages" that are not visited yet
CloudCanEnqueue(target_url, visited) ==
    /\ Contains(target_url, <<"amazon.com">>)
    /\ \/ Contains(target_url, <<"/dp/">>)
       \/ Contains(target_url, <<"/s?k=">>)
       \/ Contains(target_url, <<"/gp/product/">>)
    /\ target_url \notin visited

\* "for link in links: ... urls_to_visit.append((target_url, current_url,
\* level + 1))"
RECURSIVE CloudEnqueue(_, _, _, _, _)
CloudEnqueue(q, links, visited, current_url, level) ==
    IF links = <<>> THEN q
    ELSE LET t == Head(links).target
             q1 == IF CloudCanEnqueue(t, visited)
                   THEN Append(q, [url |-> t, referer |-> current_url,
                                   level |-> level + 1])
                   ELSE q
         IN  CloudEnqueue(q1, Tail(links), visited, current_url, level)

\* dict returned by CloudCrawler.fetch_page; status_code is 0 when all
\* retries failed
CloudPageRecord(url, status) == [url |-> url, status_code |-> status]

\* robots.txt documents the base url of CloudCrawler may answer with
CloudRobotsLines ==
    {Line("disallow", <<"/dp/">>), Line("allow", <<"/s?k=">>),
     Line("disallow", <<>>), Line("sitemap", <<"sitemap.xml">>),
     Line("crawl-delay", <<"3">>), Line("crawl-delay", <<"10">>)}

CloudRobotsDocs == SeqsUpTo(CloudRobotsLines, MaxLines)

Max(a, b) == IF a >= b THEN a ELSE b

\* crawlability_score of CloudCrawler.analyze_robots_txt after a 200
\* response, in hundredths
CloudCrawlabilityScore(lines) ==
    LET delay == CrawlDelay(lines, 0)
        raw == 100
               - Min(50, Len(RobotsPaths(lines, "disallow")) * 2)
               + Min(20, Len(RobotsPaths(lines, "allow")) * 2)
               - (IF delay # 0 THEN Min(30, delay * 5) ELSE 0)
               + Min(10, Len(RobotsPaths(lines, "sitemap")) * 5)
    IN  Max(0, Min(100, raw)) * Scale

\* what the robots.txt request of analyze_robots_txt ends with
RobotsResponses == {"ok", "status", "exception"}

\* the dict CloudCrawler.analyze_robots_txt returns: after a 200 response,
\* after another status, and after an exception
CloudRobotsData(resp, lines) ==
    CASE resp = "ok" ->
             [status |-> "success",
              disallowed_paths |-> RobotsPaths(lines, "disallow"),
              allowed_paths |-> RobotsPaths(lines, "allow"),
              crawlability_score |-> CloudCrawlabilityScore(lines)]
      [] resp = "status" ->
             [status |-> "error", disallowed_paths |-> <<>>,
              allowed_paths |-> <<>>, crawlability_score |-> 50 * Scale]
      [] resp = "exception" ->
             [status |-> "error", disallowed_paths |-> <<>>,
              allowed_paths |-> <<>>, crawlability_score |-> 0]

\* CloudCrawler.analyze_robots_txt, called before crawl; robots_data is
\* the dict it returns
C_AnalyzeRobots ==
    /\ variant = "cloud"
    /\ pc = "idle"
    /\ robots_data = NoRobotsData
    /\ \E resp \in RobotsResponses, doc \in CloudRobotsDocs :
           robots_data' = CloudRobotsData(resp, doc)
    /\ UNCHANGED <<sessionVars, unitVars, scoring, twin, fetch, pc, visited_urls,
                   ecomVars, current, outcome, fetch_count, browserVars>>

\* "Reset data structures" and the seed entry of CloudCrawler.crawl
C_Start ==
    /\ variant = "cloud"
    /\ pc = "idle"
    /\ visited_urls' = {}
    /\ all_links' = <<>>
    /\ pages_data' = <<>>
    /\ urls_to_visit' = <<[url |-> search_url, referer |-> None, level |-> 0]>>
    /\ page_count' = 0
    /\ pc' = "loop"
    /\ UNCHANGED <<sessionVars, unitVars, scoring, twin, fetch, current, outcome, fetch_count, robots_data,
                   browserVars>>

\* "while urls_to_visit and page_count < max_pages"
C_LoopGuard == urls_to_visit # <<>> /\ page_count < max_pages

\* one iteration that ends at "continue"
C_Skip ==
    /\ variant = "cloud"
    /\ pc = "loop"
    /\ C_LoopGuard
    /\ LET e == Head(urls_to_visit)
       IN  /\ ShouldSkip(e.url, e.level, visited_urls, max_depth)
           /\ urls_to_visit' = Tail(urls_to_visit)
           /\ current' = e
           /\ outcome' = "skipped"
    /\ UNCHANGED <<sessionVars, unitVars, scoring, twin, fetch, pc, visited_urls, pages_data, all_links,
                   page_count, fetch_count, robots_data, browserVars>>

\* one iteration that reaches the try block.  kind: "page" (a page dict),
\* "failed" (the dict with status_code 0), "raised" (an exception before
\* the links are stored), "page_raised" (the title of the page is None, so
\* building the sitemap node raises after pages_data.append)
C_Visit ==
    /\ variant = "cloud"
    /\ pc = "loop"
    /\ C_LoopGuard
    /\ LET e == Head(urls_to_visit)
           q == Tail(urls_to_visit)
           visited == VisitedAdd(visited_urls, e.url)
       IN  /\ ~ShouldSkip(e.url, e.level, visited_urls, max_depth)
           /\ current' = e
           /\ visited_urls' = visited
           /\ page_count' = page_count + 1
           /\ fetch_count' = [fetch_count EXCEPT ![e.url] = @ + 1]
           /\ \E kind \in {"page", "failed", "raised", "page_raised"},
                 c \in PageContents :
                 /\ outcome' = kind
                 /\ IF kind = "raised"
                    THEN /\ urls_to_visit' = q
                         /\ UNCHANGED <<pages_data, all_links>>
                    ELSE LET x == Extracted(e.url, kind, c)
                             links == cloud_extract_links(x.anchors, e.url)
                         IN  /\ all_links' = all_links \o links
                             /\ pages_data' =
                                    Append(pages_data,
                                           CloudPageRecord(e.url, x.status))
                             /\ urls_to_visit' =
                                    IF kind = "page_raised" THEN q
                                    ELSE CloudEnqueue(q, links, visited,
                                                      e.url, e.level)
    /\ UNCHANGED <<sessionVars, unitVars, scoring, twin, fetch, pc, robots_data, browserVars>>

\* loop exit, saving the files and return
C_Finish ==
    /\ variant = "cloud"
    /\ pc = "loop"
    /\ ~C_LoopGuard
    /\ pc' = "done"
    /\ UNCHANGED <<sessionVars, unitVars, scoring, twin, fetch, visited_urls, ecomVars, current, outcome,
                   fetch_count, robots_data, browserVars>>

-----------------------------------------------------------------------------
(* BrowserCrawler *)

\* paths and robots rules of the browser crawl are kept letter by letter
Letters(w) ==
    CASE w = "admin" -> <<"a", "d", "m", "i", "n">>
      [] w = "settings" -> <<"s", "e", "t", "t", "i", "n", "g", "s">>

start_url == <<"https://", "x.test", "/">>
PageA == <<"https://", "x.test", "/", "a">>
AdminSettings ==
    <<"https://", "x.test", "/">> \o Letters("admin") \o <<"/">>
        \o Letters("settings")
OtherC == <<"http://", "other.test", "/", "c">>

\* targets (already resolved by urljoin) that a page of the site may link to
BrowserHrefs == {start_url, PageA, AdminSettings, OtherC}

BrowserAnchors ==
    {[href |-> PageA, nofollow |-> FALSE],
     [href |-> AdminSettings, nofollow |-> FALSE],
     [href |-> OtherC, nofollow |-> TRUE]}

BrowserContents == [anchors : SeqsUpTo(BrowserAnchors, MaxAnchors)]

AdminStar == <<"/">> \o Letters("admin") \o <<"/", "*">>
AdminSettingsPath == <<"/">> \o Letters("admin") \o <<"/">> \o Letters("settings")

RobotsDocs ==
    { <<>>,
      <<Line("user-agent", <<"*">>), Line("disallow", AdminStar)>>,
      <<Line("user-agent", <<"*">>), Line("disallow", AdminStar),
        Line("allow", AdminSettingsPath)>>,
      <<Line("user-agent", <<"Other">>), Line("disallow", <<"/">>)>>,
      <<Line("user-agent", <<"Crowl">>), Line("disallow", <<"/", "a">>)>> }

\* str.rstrip('*')
RECURSIVE RStripStar(_)
RStripStar(r) ==
    IF r # <<>> /\ r[Len(r)] = "*" THEN RStripStar(SubSeq(r, 1, Len(r) - 1))
    ELSE r

\* "allowed_path == '/' or path.startswith(allowed_path.rstrip('*'))"
RuleMatches(rule, path) ==
    rule = <<"/">> \/ StartsWith(path, RStripStar(rule))

\* the parsing loop of _parse_robots_txt over the lines of a 200 response
RECURSIVE ParseLines(_, _, _)
ParseLines(lines, current_agent, rules) ==
    IF lines = <<>> THEN rules
    ELSE LET l == Head(lines)
             applies == current_agent = <<"*">> \/ current_agent = <<"Crowl">>
         IN  IF l.field = "user-agent"
             THEN ParseLines(Tail(lines), l.value, rules)
             ELSE IF l.field = "allow" /\ applies
             THEN ParseLines(Tail(lines), current_agent,
                      [rules EXCEPT !.allowed = Append(@, l.value)])
             ELSE IF l.field = "disallow" /\ applies
             THEN ParseLines(Tail(lines), current_agent,
                      [rules EXCEPT !.disallowed = Append(@, l.value)])
             ELSE ParseLines(Tail(lines), current_agent, rules)

\* self.robots_rules = {}: no rules loaded
NoRules == <<>>

\* self.robots_rules after a 200 response with the given lines
ParsedRules(lines) ==
    ParseLines(lines, None, [allowed |-> <<>>, disallowed |-> <<>>])

\* mutant: the disallow rules are consulted before the allow rules
IsAllowed_DisallowFirst(rules, url) ==
    IF rules = NoRules THEN TRUE
    ELSE LET path == UrlPath(url)
         IN  IF \E i \in 1..Len(rules.disallowed) :
                    RuleMatches(rules.disallowed[i], path)
             THEN FALSE
             ELSE TRUE

\* BrowserCrawler._is_allowed
IsAllowed(rules, url) ==
    IF rules = NoRules THEN TRUE
    ELSE LET path == UrlPath(url)
         IN  IF \E i \in 1..Len(rules.allowed) :
                    RuleMatches(rules.allowed[i], path)
             THEN TRUE
             ELSE ~\E i \in 1..Len(rules.disallowed) :
                       RuleMatches(rules.disallowed[i], path)

\* mutant: every link counts as internal
IsInternalLink_Always(source_url, target_url) == TRUE

\* BrowserCrawler._is_internal_link
IsInternalLink(source_url, target_url) == Netloc(source_url) = Netloc(target_url)

\* BrowserCrawler._extract_links
browser_extract_links(anchors, source_url, rules) ==
    [i \in 1..Len(anchors) |->
        [source |-> source_url, target |-> anchors[i].href,
         nofollow |-> anchors[i].nofollow,
         disallow |-> ~IsAllowed(rules, anchors[i].href)]]

\* page_data of _extract_page_data
BrowserPageRecord(url, depth, referer, status) ==
    [url |-> url, response_code |-> status, level |-> depth,
     referer |-> referer]

\* mutant: the page budget is not tested
EarlyReturn_NoBudget(url, depth, visited, rules, maxp, maxd) ==
    \/ depth > maxd
    \/ url \in visited
    \/ ~IsAllowed(rules, url)

\* mutant: the robots test is missing
EarlyReturn_NoRobots(url, depth, visited, rules, maxp, maxd) ==
    \/ Cardinality(visited) >= maxp
    \/ depth > maxd
    \/ url \in visited

\* the four early returns of _crawl_page
EarlyReturn(url, depth, visited, rules, maxp, maxd) ==
    \/ Cardinality(visited) >= maxp
    \/ depth > maxd
    \/ url \in visited
    \/ ~IsAllowed(rules, url)

\* "if depth < max_depth": links are extracted and followed
FollowsLinks(depth, maxd) == depth < maxd

\* the call _crawl_page(url, depth, referer) under observation, and the
\* anchors of the document the browser loaded in it (none when nothing loads)
BrowserCall(url, depth, referer, anchors) ==
    [url |-> url, referer |-> referer, level |-> depth, anchors |-> anchors]

\* one call _crawl_page(url, depth, referer) up to the start of its link
\* loop; rest is the stack of the callers.  kind: "page" (the page is
\* recorded), "raised" (navigation or page extraction raises: no record),
\* "page_raised" (query_selector_all raises after the record is appended)
CrawlPage(url, depth, referer, rest) ==
    /\ IF EarlyReturn(url, depth, visited_urls, robots_rules, max_pages,
                      max_depth)
       THEN /\ outcome' = "skipped"
            /\ current' = BrowserCall(url, depth, referer, <<>>)
            /\ stack' = rest
            /\ UNCHANGED <<visited_urls, urls_data, links_data, fetch_count>>
       ELSE /\ visited_urls' = VisitedAdd(visited_urls, url)
            /\ fetch_count' = [fetch_count EXCEPT ![url] = @ + 1]
            /\ \E kind \in {"page", "raised", "page_raised"},
                  status \in StatusCodes, c \in BrowserContents :
                  /\ outcome' = kind
                  /\ current' =
                         BrowserCall(url, depth, referer,
                                     IF kind = "raised" THEN <<>>
                                     ELSE c.anchors)
                  /\ IF kind = "raised"
                     THEN /\ stack' = rest
                          /\ UNCHANGED <<urls_data, links_data>>
                     ELSE /\ urls_data' =
                                 Append(urls_data,
                                        BrowserPageRecord(url, depth, referer,
                                                          status))
                          /\ IF kind = "page" /\ FollowsLinks(depth, max_depth)
                             THEN LET links ==
                                          browser_extract_links(c.anchors, url,
                                                                robots_rules)
                                  IN  /\ links_data' = links_data \o links
                                      /\ stack' =
                                             Append(rest,
                                                    [url |-> url,
                                                     depth |-> depth,
                                                     links |-> links,
                                                     i |-> 1])
                             ELSE /\ stack' = rest
                                  /\ UNCHANGED links_data

\* crawl: _parse_robots_txt.  The robots request either fails or answers
\* with a status other than 200 (the rules are left as they are), or
\* answers 200 with some document
ParseRobots(ok, doc) ==
    /\ variant = "browser"
    /\ pc = "idle"
    /\ robots_rules' = IF ok THEN ParsedRules(doc) ELSE robots_rules
    /\ robots_text' = IF ok THEN doc ELSE robots_text
    /\ pc' = "start"
    /\ UNCHANGED <<sessionVars, prioritized, all_products, scoring, twin, fetch, visited_urls, ecomVars, current, outcome,
                   fetch_count, robots_data, urls_data, links_data, stack>>

B_ParseRobots == \E ok \in BOOLEAN, doc \in RobotsDocs : ParseRobots(ok, doc)

\* robots documents with an empty Disallow line, and with groups that name
\* several agents
GroupRobotsDocs ==
    { <<Line("user-agent", <<"*">>), Line("disallow", <<>>)>>,
      <<Line("user-agent", <<"*">>), Line("disallow", <<>>),
        Line("disallow", AdminStar)>>,
      <<Line("user-agent", <<"*">>), Line("user-agent", <<"Other">>),
        Line("disallow", <<"/", "a">>)>>,
      <<Line("user-agent", <<"Other">>), Line("user-agent", <<"Crowl">>),
        Line("disallow", <<"/", "a">>)>>,
      <<Line("user-agent", <<"Other">>), Line("disallow", <<"/", "a">>),
        Line("user-agent", <<"*">>), Line("allow", AdminSettingsPath),
        Line("disallow", AdminStar)>>,
      <<Line("disallow", <<"/", "a">>), Line("user-agent", <<"Other">>),
        Line("disallow", <<"/">>)>> }

B_ParseGroups ==
    \E ok \in BOOLEAN, doc \in GroupRobotsDocs : ParseRobots(ok, doc)

\* crawl: the call _crawl_page(page, start_url, 0, ...)
B_CrawlStart ==
    /\ variant = "browser"
    /\ pc = "start"
    /\ CrawlPage(start_url, 0, None, <<>>)
    /\ pc' = "loop"
    /\ UNCHANGED <<sessionVars, unitVars, scoring, twin, fetch, ecomVars, robots_data, robots_rules>>

\* one round of "for link in links" of the innermost running _crawl_page
B_FollowLink ==
    /\ variant = "browser"
    /\ pc = "loop"
    /\ stack # <<>>
    /\ LET f == stack[Len(stack)]
           rest == [stack EXCEPT ![Len(stack)].i = @ + 1]
       IN  /\ f.i <= Len(f.links)
           /\ IF IsInternalLink(f.url, f.links[f.i].target)
              THEN CrawlPage(f.links[f.i].target, f.depth + 1, f.url, rest)
              ELSE /\ stack' = rest
                   /\ current' = BrowserCall(f.links[f.i].target, f.depth + 1,
                                             f.url, <<>>)
                   /\ outcome' = "external"
                   /\ UNCHANGED <<visited_urls, urls_data, links_data,
                                  fetch_count>>
    /\ UNCHANGED <<sessionVars, unitVars, scoring, twin, fetch, pc, ecomVars, robots_data, robots_rules>>

\* the link loop of the innermost _crawl_page is exhausted: it returns
B_Return ==
    /\ variant = "browser"
    /\ pc = "loop"
    /\ stack # <<>>
    /\ stack[Len(stack)].i > Len(stack[Len(stack)].links)
    /\ stack' = SubSeq(stack, 1, Len(stack) - 1)
    /\ UNCHANGED <<sessionVars, unitVars, scoring, twin, fetch, pc, visited_urls, ecomVars, current, outcome,
                   fetch_count, robots_data, robots_rules, urls_data,
                   links_data>>

\* crawl: the outermost _crawl_page has returned; _save_data and return
B_Finish ==
    /\ variant = "browser"
    /\ pc = "loop"
    /\ stack = <<>>
    /\ pc' = "done"
    /\ UNCHANGED <<sessionVars, unitVars, scoring, twin, fetch, visited_urls, ecomVars, current, outcome,
                   fetch_count, robots_data, browserVars>>

\* rule paths a robots document may carry, and the rule sets made of them
RulePaths ==
    {<<"/">>, <<>>, <<"/", "a">>, AdminStar, AdminSettingsPath}

RuleSets ==
    {NoRules} \cup [allowed : SeqsUpTo(RulePaths, MaxRules),
                    disallowed : SeqsUpTo(RulePaths, MaxRules)]

\* a url without a path: urlparse gives path ''
NoPathUrl == <<"https://", "x.test">>

\* a direct call self._is_allowed(url) on a crawler with rules loaded
B_IsAllowed ==
    /\ variant = "browser"
    /\ pc = "call"
    /\ \E u \in BrowserHrefs \cup {NoPathUrl} :
           /\ current' = [NoEntry EXCEPT !.url = u]
           /\ outcome' = IF IsAllowed(robots_rules, u) THEN "allowed"
                         ELSE "disallowed"
    /\ UNCHANGED <<sessionVars, unitVars, scoring, twin, fetch, pc, visited_urls, ecomVars, fetch_count,
                   robots_data, browserVars>>

\* crawl is called once more on the same BrowserCrawler object: nothing is
\* reset between "return self.urls_data, self.links_data" and the next call
B_CrawlAgain ==
    /\ variant = "browser"
    /\ pc = "done"
    /\ pc' = "idle"
    /\ UNCHANGED <<sessionVars, unitVars, scoring, twin, fetch, visited_urls, ecomVars, current, outcome,
                   fetch_count, robots_data, browserVars>>

-----------------------------------------------------------------------------
(* fetch_page of EcommerceCrawler, CloudCrawler and JSDetector *)

max_retries == 3        \* "max_retries = 3"
retry_delay == 2        \* "retry_delay = 2", in seconds

\* 2 ** n
RECURSIVE Pow2(_)
Pow2(n) == IF n = 0 THEN 1 ELSE 2 * Pow2(n - 1)

\* no call of fetch_page so far.  Delays are kept in hundredths of a second.
NoFetch ==
    [who |-> "none", phase |-> "idle", priority |-> 0,
     range |-> [lo |-> 0, hi |-> 0], lo |-> 0, hi |-> 0, delay |-> 0,
     slept |-> FALSE, attempt |-> 0, requests |-> 0, resps |-> <<>>,
     waits |-> <<>>, result |-> "none", status |-> 0, analysis |-> "none"]

\* what the server, or the transport, does with one request: a response
\* without challenge markers (200, 503, 404), a response whose body contains
\* "captcha" or "robot", requests.Timeout, requests.ConnectionError, and an
\* exception that is no RequestException
Responses ==
    {"ok", "http503", "http404", "challenge", "timeout", "connection_error",
     "other_exception"}

\* what one request of JSDetector.fetch_page may end with: the above, and a
\* 200 response whose text is empty, on which _analyze_content raises
JSResponses == Responses \cup {"empty200"}

\* response.status_code
StatusOf(resp) ==
    CASE resp = "http503" -> 503
      [] resp = "http404" -> 404
      [] OTHER -> 200

\* delay_range arguments of crawl: the default and (1, 10)
DelayRanges ==
    {[lo |-> 2 * Scale, hi |-> 5 * Scale], [lo |-> 1 * Scale, hi |-> 10 * Scale]}

\* "current_priority = _ if _ else 50" and adaptive_delay of crawl
AdaptiveDelay(priority, r) ==
    LET current_priority == IF priority = 0 THEN 50 * Scale ELSE priority
    IN  ((r.hi - r.lo) * current_priority) \div (100 * Scale) + r.lo

\* the seed entry of crawl
SeedEntry ==
    [priority |-> 100 * Scale, url |-> search_url, referer |-> None,
     level |-> 0]

\* anchors whose frontier entries are fetched below
FetchAnchors ==
    {[href |-> Dp1, nofollow |-> FALSE], [href |-> Help, nofollow |-> FALSE],
     [href |-> Help, nofollow |-> TRUE]}

\* frontier entries crawl can dequeue: the seed, and the entry made of one
\* anchor found on the seed page (level 0) or on a product page (level 1)
FetchEntries ==
    {SeedEntry} \cup
    {PrioritizedLinks(extract_links(<<a>>), 0,
                      IF lvl = 0 THEN search_url ELSE Dp1, lvl)[1] :
         a \in FetchAnchors, lvl \in 0..(MaxDepthBound - 1)}

\* what random.uniform(lo, hi) may return: the ends and the middle
Uniform(lo, hi) == {lo, (lo + hi) \div 2, hi}

\* the sleep before the try block: time.sleep raises ValueError when the
\* delay is negative, and nothing around it in fetch_page catches that
AfterSleep(who, priority, r, lo, hi, delay) ==
    IF delay < 0
    THEN [NoFetch EXCEPT !.who = who, !.phase = "done",
                         !.priority = priority, !.range = r, !.lo = lo,
                         !.hi = hi, !.delay = delay, !.result = "raised"]
    ELSE [NoFetch EXCEPT !.who = who, !.phase = "try",
                         !.priority = priority, !.range = r, !.lo = lo,
                         !.hi = hi, !.delay = delay, !.slept = TRUE]

\* the wait of this attempt is slept and the next attempt follows
Retry(f, wait, cond) ==
    [f EXCEPT !.attempt = @ + 1,
              !.waits = Append(@, [k |-> f.attempt + 1, wait |-> wait,
                                   cond |-> cond])]

\* fetch_page returns, or raises
Done(f, result, status) ==
    [f EXCEPT !.phase = "done", !.result = result, !.status = status]

\* EcommerceCrawler.crawl calls fetch_page for a dequeued entry with
\* delay_range = (adaptive_delay, adaptive_delay + 1); fetch_page draws the
\* delay and sleeps
E_FetchCall ==
    /\ variant = "ecommerce"
    /\ pc = "call"
    /\ fetch.phase = "idle"
    /\ \E e \in FetchEntries, r \in DelayRanges :
           LET lo == AdaptiveDelay(e.priority, r)
               hi == lo + 1 * Scale
           IN  \E delay \in Uniform(lo, hi) :
                   fetch' = AfterSleep("ecommerce", e.priority, r, lo, hi,
                                       delay)
    /\ UNCHANGED <<sessionVars, unitVars, scoring, twin, pc, visited_urls, ecomVars, current, outcome,
                   fetch_count, robots_data, browserVars>>

\* one round of "for attempt in range(max_retries)" of
\* EcommerceCrawler.fetch_page, with what follows the loop when it is left
E_FetchAttempt ==
    /\ variant = "ecommerce"
    /\ pc = "call"
    /\ fetch.phase = "try"
    /\ \E resp \in Responses :
           LET f == [fetch EXCEPT !.requests = @ + 1,
                                  !.resps = Append(@, resp)]
               more == fetch.attempt < max_retries - 1
               wait == retry_delay * Pow2(fetch.attempt)
           IN  fetch' =
                   IF resp = "challenge" /\ more THEN Retry(f, wait, resp)
                   ELSE IF resp \in {"ok", "http503", "http404", "challenge"}
                   THEN Done(f, "page", StatusOf(resp))
                   ELSE IF resp \in {"timeout", "connection_error"} /\ more
                   THEN Retry(f, wait, resp)
                   ELSE Done(f, "failure", 0)
    /\ UNCHANGED <<sessionVars, unitVars, scoring, twin, pc, visited_urls, ecomVars, current, outcome,
                   fetch_count, robots_data, browserVars>>

\* CloudCrawler.crawl calls fetch_page with its own delay_range
C_FetchCall ==
    /\ variant = "cloud"
    /\ pc = "call"
    /\ fetch.phase = "idle"
    /\ \E r \in DelayRanges :
           \E delay \in Uniform(r.lo, r.hi) :
               fetch' = AfterSleep("cloud", 0, r, r.lo, r.hi, delay)
    /\ UNCHANGED <<sessionVars, unitVars, scoring, twin, pc, visited_urls, ecomVars, current, outcome,
                   fetch_count, robots_data, browserVars>>

\* one round of "for attempt in range(max_retries)" of
\* CloudCrawler.fetch_page
C_FetchAttempt ==
    /\ variant = "cloud"
    /\ pc = "call"
    /\ fetch.phase = "try"
    /\ \E resp \in Responses :
           LET f == [fetch EXCEPT !.requests = @ + 1,
                                  !.resps = Append(@, resp)]
               more == fetch.attempt < max_retries - 1
               wait == retry_delay * Pow2(fetch.attempt)
           IN  fetch' =
                   IF resp = "challenge" /\ more THEN Retry(f, wait, resp)
                   ELSE IF resp \in {"ok", "http503", "http404", "challenge"}
                   THEN Done(f, "page", StatusOf(resp))
                   ELSE IF more THEN Retry(f, wait, resp)
                   ELSE Done(f, "failure", 0)
    /\ UNCHANGED <<sessionVars, unitVars, scoring, twin, pc, visited_urls, ecomVars, current, outcome,
                   fetch_count, robots_data, browserVars>>

\* JSDetector.fetch_page(url) with the default max_retries and retry_delay
J_FetchCall ==
    /\ variant = "js"
    /\ pc = "call"
    /\ fetch.phase = "idle"
    /\ fetch' = [NoFetch EXCEPT !.who = "js", !.phase = "try"]
    /\ UNCHANGED <<sessionVars, unitVars, scoring, twin, pc, visited_urls, ecomVars, current, outcome,
                   fetch_count, robots_data, browserVars>>

\* one round of "while retry_count < max_retries" of JSDetector.fetch_page;
\* attempt is retry_count.  The wait of a transient status is jittered by
\* a factor in [0.5, 1.5): the wait recorded is the one before the jitter
J_FetchAttempt ==
    /\ variant = "js"
    /\ pc = "call"
    /\ fetch.phase = "try"
    /\ \E resp \in JSResponses :
           LET f == [fetch EXCEPT !.requests = @ + 1,
                                  !.resps = Append(@, resp)]
               retry_count == fetch.attempt + 1
               wait == IF resp \in {"http503", "timeout", "connection_error"}
                       THEN retry_delay * Pow2(retry_count - 1)
                       ELSE retry_delay
               g == Retry(f, wait, resp)
           IN  fetch' =
                   IF resp \in {"ok", "challenge"} THEN Done(f, "true", 200)
                   ELSE IF retry_count < max_retries THEN g
                   ELSE Done(g, "raised", 0)
    /\ UNCHANGED <<sessionVars, unitVars, scoring, twin, pc, visited_urls, ecomVars, current, outcome,
                   fetch_count, robots_data, browserVars>>

\* JSDetector.analyze_page: the try around fetch_page returns the result
\* dict, and its except branch returns the error response
J_AnalyzePage ==
    /\ variant = "js"
    /\ pc = "call"
    /\ fetch.phase = "done"
    /\ fetch' = [fetch EXCEPT !.phase = "analyzed",
                              !.analysis = IF fetch.result = "true"
                                           THEN "success" ELSE "error"]
    /\ UNCHANGED <<sessionVars, unitVars, scoring, twin, pc, visited_urls, ecomVars,
                   current, outcome, fetch_count, robots_data, browserVars>>

-----------------------------------------------------------------------------
(* Two calls of EcommerceCrawler.crawl with the same arguments on one site *)

\* no pair of calls is under observation
NoTwin == <<>>

\* the url has not been fetched by either call
NoPage == <<>>

Elems(s) == {s[i] : i \in 1..Len(s)}

\* crawl after "Reset data structures": the seed entry, nothing visited.
\* order is visited_urls in the order of the add calls.
RunStart ==
    [pc |-> "loop", order |-> <<>>, urls_to_visit |-> <<SeedEntry>>,
     page_count |-> 0, ties |-> FALSE]

TwinStart ==
    [site |-> [u \in AmazonUrls |-> NoPage], runs |-> <<RunStart, RunStart>>]

\* "while urls_to_visit and page_count < max_pages"
RunLoopGuard(r, maxp) == r.urls_to_visit # <<>> /\ r.page_count < maxp

\* one iteration of the loop of crawl on the scheduler state r of a call.
\* kind and x are what the page of the dequeued url answers ("page" or
\* "failed" as in E_VisitFrom, x the extracted body), unsaved
\* tells that a CSV write after pages_data.append raises in this call.
\* ties records that the dequeued entry shared its priority with another
\* entry of the frontier.
RunIteration(r, kind, x, unsaved, maxd, maxp) ==
    LET e == MaxEntry(r.urls_to_visit)
        q == ListRemove(r.urls_to_visit, e)
        tie == r.ties \/ \E k \in 1..Len(q) : q[k].priority = e.priority
        visited == VisitedAdd(Elems(r.order), e.url)
        links == extract_links(x.anchors)
    IN  IF ShouldSkip(e.url, e.level, Elems(r.order), maxd)
        THEN [r EXCEPT !.urls_to_visit = q, !.ties = tie]
        ELSE [r EXCEPT !.urls_to_visit =
                           Enqueue(q, PrioritizedLinks(links, PageScore(x),
                                                       e.url, e.level),
                                   visited, maxd, maxp),
                       !.ties = tie,
                       !.order = Append(@, e.url),
                       !.page_count = IF unsaved THEN @ ELSE @ + 1]

\* one iteration of call i; the second call starts when the first has
\* returned.  The page of a url is chosen when the url is first fetched
\* and is the same for both calls.
E_TwinIteration ==
    /\ variant = "ecommerce"
    /\ pc = "runs"
    /\ \E i \in 1..2 :
           LET r == twin.runs[i]
               e == MaxEntry(r.urls_to_visit)
           IN  /\ r.pc = "loop"
               /\ i = 2 => twin.runs[1].pc = "done"
               /\ RunLoopGuard(r, max_pages)
               /\ \E kind \in {"page", "failed"}, c \in PageContents,
                     unsaved \in BOOLEAN :
                     LET known == twin.site[e.url] # NoPage
                         page == IF known THEN twin.site[e.url]
                                 ELSE [kind |-> kind,
                                       x |-> Extracted(e.url, kind, c)]
                     IN  /\ known => (kind = page.kind /\ c = page.x)
                         /\ twin' =
                               [twin EXCEPT
                                  !.site[e.url] =
                                      IF ShouldSkip(e.url, e.level,
                                                    Elems(r.order), max_depth)
                                      THEN @ ELSE page,
                                  !.runs[i] =
                                      RunIteration(r, page.kind, page.x,
                                                   unsaved, max_depth,
                                                   max_pages)]
    /\ UNCHANGED <<sessionVars, unitVars, scoring, fetch, pc, visited_urls, ecomVars, current,
                   outcome, fetch_count, robots_data, browserVars>>

\* the loop of call i is left and crawl ends
E_TwinFinish ==
    /\ variant = "ecommerce"
    /\ pc = "runs"
    /\ \E i \in 1..2 :
           /\ twin.runs[i].pc = "loop"
           /\ i = 2 => twin.runs[1].pc = "done"
           /\ ~RunLoopGuard(twin.runs[i], max_pages)
           /\ twin' = [twin EXCEPT !.runs[i].pc = "done"]
    /\ UNCHANGED <<sessionVars, unitVars, scoring, fetch, pc, visited_urls, ecomVars, current,
                   outcome, fetch_count, robots_data, browserVars>>

-----------------------------------------------------------------------------
(* Scoring: the link graph and PageRank *)

\* G = nx.DiGraph(): no node, no edge
EmptyGraph == [nodes |-> <<>>, edges |-> <<>>]

AddNode(nodes, n) == IF n \in Elems(nodes) THEN nodes ELSE Append(nodes, n)

\* mutant: a multigraph, every call adds an edge
AddEdge_Multi(G, s, t) ==
    [nodes |-> AddNode(AddNode(G.nodes, s), t),
     edges |-> Append(G.edges, <<s, t>>)]

\* G.add_edge(s, t): both ends become nodes; an edge that is there already
\* is not added again
AddEdge(G, s, t) ==
    [nodes |-> AddNode(AddNode(G.nodes, s), t),
     edges |-> IF <<s, t>> \in Elems(G.edges) THEN G.edges
               ELSE Append(G.edges, <<s, t>>)]

\* "for link in self.all_links: G.add_edge(link['source'], link['target'])"
RECURSIVE AddEdges(_, _)
AddEdges(G, links) ==
    IF links = <<>> THEN G
    ELSE AddEdges(AddEdge(G, Head(links).source, Head(links).target),
                  Tail(links))

DiGraph(links) == AddEdges(EmptyGraph, links)

MaxIter == 3            \* power iterations of nx.pagerank that are followed

\* "alpha=0.85", as the fraction 17 / 20
alpha == [num |-> 17, den |-> 20]

RECURSIVE Gcd(_, _)
Gcd(a, b) == IF b = 0 THEN a ELSE Gcd(b, a % b)

\* sum of f[n] over the nodes of the sequence
RECURSIVE SumOver(_, _)
SumOver(nodes, f) ==
    IF nodes = <<>> THEN 0 ELSE f[Head(nodes)] + SumOver(Tail(nodes), f)

RECURSIVE GcdOver(_, _, _)
GcdOver(nodes, f, g) ==
    IF nodes = <<>> THEN g ELSE GcdOver(Tail(nodes), f, Gcd(f[Head(nodes)], g))

OutDegree(G, n) == Cardinality({k \in 1..Len(G.edges) : G.edges[k][1] = n})

\* least common multiple of the out-degrees of the nodes that have edges
OutLcm(G) ==
    LET degs == {OutDegree(G, n) : n \in Elems(G.nodes)} \ {0}
        top == Len(G.nodes) * Len(G.nodes) * Len(G.nodes) + 1
    IN  CHOOSE m \in 1..top :
            /\ \A dg \in degs : m % dg = 0
            /\ \A k \in 1..(m - 1) : \E dg \in degs : k % dg # 0

\* the start vector of nx.pagerank: 1 / N for every node.  A score vector
\* gives node n the score num[n] / den.
StartVector(G) == [num |-> [n \in Elems(G.nodes) |-> 1], den |-> Len(G.nodes)]

\* mutant: the score of the nodes without outgoing edge is not given back
PowerStep_NoDangling(G, x) ==
    LET N == Len(G.nodes)
        L == OutLcm(G)
        inflow == [v \in Elems(G.nodes) |->
                     SumOver(G.nodes,
                             [u \in Elems(G.nodes) |->
                                 IF <<u, v>> \in Elems(G.edges)
                                 THEN x.num[u] * (L \div OutDegree(G, u))
                                 ELSE 0])]
        num == [v \in Elems(G.nodes) |->
                   alpha.num * N * inflow[v]
                   + (alpha.den - alpha.num) * L * x.den]
        den == alpha.den * N * L * x.den
        g == GcdOver(G.nodes, num, den)
    IN  [num |-> [v \in Elems(G.nodes) |-> num[v] \div g], den |-> den \div g]

\* one power iteration of nx.pagerank(G, alpha): a node passes its score in
\* equal parts along its edges, the score of the nodes without outgoing
\* edge is spread over all nodes, and (1 - alpha) / N is added.  The
\* fraction is reduced.
PowerStep(G, x) ==
    LET N == Len(G.nodes)
        L == OutLcm(G)
        dangling == [u \in Elems(G.nodes) |->
                        IF OutDegree(G, u) = 0 THEN x.num[u] ELSE 0]
        inflow == [v \in Elems(G.nodes) |->
                     SumOver(G.nodes,
                             [u \in Elems(G.nodes) |->
                                 IF <<u, v>> \in Elems(G.edges)
                                 THEN x.num[u] * (L \div OutDegree(G, u))
                                 ELSE 0])]
        num == [v \in Elems(G.nodes) |->
                   alpha.num * N * inflow[v]
                   + alpha.num * L * SumOver(G.nodes, dangling)
                   + (alpha.den - alpha.num) * L * x.den]
        den == alpha.den * N * L * x.den
        g == GcdOver(G.nodes, num, den)
    IN  [num |-> [v \in Elems(G.nodes) |-> num[v] \div g], den |-> den \div g]

\* the vector after k iterations
RECURSIVE PowerIterate(_, _, _)
PowerIterate(G, x, k) ==
    IF k = 0 THEN x ELSE PowerIterate(G, PowerStep(G, x), k - 1)

\* nx.pagerank(G, alpha=0.85), followed for MaxIter iterations
PageRank(G) == PowerIterate(G, StartVector(G), MaxIter)

MaxEdges == 3           \* entries of a scored link list
MaxRows == 2            \* rows of a scored urls file

\* the empty dict
NoVector == [num |-> <<>>, den |-> 1]

Zero == [num |-> 0, den |-> 1]
NaN == [num |-> 0, den |-> 0]

\* no scoring under way
NoScore ==
    [phase |-> "idle", links |-> <<>>, G |-> EmptyGraph, x |-> NoVector,
     iter |-> 0, pagerank |-> NoVector, rows |-> <<>>]

\* urls of scored link lists and files
ScoreUrls == {start_url, PageA, OtherC}
ScoreLinks == [source : ScoreUrls, target : ScoreUrls]

\* rows of the urls file: the url and the pagerank column, which holds 0
\* for a fresh record and a score for a row left by an earlier scoring
ScoreRows ==
    [url : ScoreUrls \cup {AdminSettings},
     pagerank : {Zero, [num |-> 1, den |-> 2]}]

\* pagerank.get(url): the score of a node as a fraction, NaN for no node
MapScore(pagerank, url) ==
    IF url \in DOMAIN pagerank.num
    THEN [num |-> pagerank.num[url], den |-> pagerank.den]
    ELSE NaN

\* mutant: no fillna(0)
AttachScores_NoFill(rows, pagerank) ==
    [i \in 1..Len(rows) |->
        [rows[i] EXCEPT !.pagerank = MapScore(pagerank, rows[i].url)]]

\* "urls_df['pagerank'] = urls_df['url'].map(pagerank).fillna(0)"
AttachScores(rows, pagerank) ==
    [i \in 1..Len(rows) |->
        [rows[i] EXCEPT !.pagerank =
            IF MapScore(pagerank, rows[i].url) = NaN THEN Zero
            ELSE MapScore(pagerank, rows[i].url)]]

\* calculate_pagerank / _calculate_pagerank up to the call of nx.pagerank:
\* an empty link list ends the scoring with the empty dict
S_CalculatePagerank ==
    /\ pc = "call"
    /\ scoring.phase = "call"
    /\ scoring' = IF scoring.links = <<>>
                THEN [scoring EXCEPT !.phase = "scored"]
                ELSE [scoring EXCEPT !.phase = "iterating",
                                   !.G = DiGraph(scoring.links),
                                   !.x = StartVector(DiGraph(scoring.links))]
    /\ UNCHANGED <<sessionVars, unitVars, fetch, twin, pc, visited_urls, ecomVars,
                   current, outcome, fetch_count, robots_data, browserVars>>

\* one power iteration inside nx.pagerank
S_PowerIteration ==
    /\ pc = "call"
    /\ scoring.phase = "iterating"
    /\ scoring.iter < MaxIter
    /\ scoring' = [scoring EXCEPT !.x = PowerStep(scoring.G, scoring.x),
                              !.iter = @ + 1]
    /\ UNCHANGED <<sessionVars, unitVars, fetch, twin, pc, visited_urls, ecomVars,
                   current, outcome, fetch_count, robots_data, browserVars>>

\* nx.pagerank returns the vector
S_PagerankReturn ==
    /\ pc = "call"
    /\ scoring.phase = "iterating"
    /\ scoring.iter = MaxIter
    /\ scoring' = [scoring EXCEPT !.phase = "scored", !.pagerank = scoring.x]
    /\ UNCHANGED <<sessionVars, unitVars, fetch, twin, pc, visited_urls, ecomVars,
                   current, outcome, fetch_count, robots_data, browserVars>>

\* update_pagerank / the rest of _calculate_pagerank on the rows of the
\* urls file: "if not pagerank: return", else the column is rewritten
S_UpdatePagerank ==
    /\ pc = "call"
    /\ scoring.phase = "scored"
    /\ \E rows \in SeqsUpTo(ScoreRows, MaxRows) :
           scoring' = IF scoring.pagerank = NoVector
                    THEN [scoring EXCEPT !.phase = "skipped", !.rows = rows]
                    ELSE [scoring EXCEPT !.phase = "attached",
                                       !.rows = AttachScores(rows,
                                                             scoring.pagerank)]
    /\ UNCHANGED <<sessionVars, unitVars, fetch, twin, pc, visited_urls, ecomVars,
                   current, outcome, fetch_count, robots_data, browserVars>>

-----------------------------------------------------------------------------
(* The link prioritisation of EcommerceCrawler.crawl, one page at a time *)

\* no page has been prioritised
NoPrioritized == <<>>

\* a url that matches the product and the search pattern
DpInSearch ==
    <<"https://", "www.", "amazon.com", "/s?k=", "laptop", "/dp/", "B01">>

\* urls of every pattern class of crawl
PriorityHrefs ==
    {Dp1, Search2, Help, DpInSearch,
     <<"https://", "www.", "amazon.com", "/gp/bestsellers/", "pc">>,
     <<"https://", "www.", "amazon.com", "/gp/new-releases/", "pc">>,
     <<"https://", "www.", "amazon.com", "/gp/goldbox/", "pc">>}

\* pages whose score is 0, below and above the cap of the score bonus
PriorityContents ==
    [anchors : SeqsUpTo([href : PriorityHrefs, nofollow : BOOLEAN], MaxLinks),
     title_len : {0, 55, 120},
     desc_len : {0, 210}, nproducts : {0, 1, 12}, status : StatusCodes]

\* "Calculate page score" to "Add to all links for visualization" of one
\* loop iteration of crawl, for the page c fetched from url at this level
E_Prioritize ==
    /\ variant = "ecommerce"
    /\ pc = "call"
    /\ prioritized = NoPrioritized
    /\ robots_text = <<>>
    /\ \E url \in {search_url, Help}, level \in 0..MaxDepthBound,
          c \in PriorityContents :
           LET x == Extracted(url, "page", c)
               links == extract_links(x.anchors)
               page_score == PageScore(x)
           IN  prioritized' =
                   [url |-> url, level |-> level, page |-> x,
                    prioritized_links |->
                        PrioritizedLinks(links, page_score, url, level),
                    all_links |-> LinkEdges(links, page_score, url, level)]
    /\ UNCHANGED <<sessionVars, all_products, robots_text, scoring, twin,
                   fetch, pc, visited_urls, ecomVars, current, outcome,
                   fetch_count, robots_data, browserVars>>

-----------------------------------------------------------------------------
(* Product collection of EcommerceCrawler.crawl and CloudCrawler.crawl *)

\* product dicts extract_products may return: the asin is '' when the item
\* carries none
Products == [asin : {"", "B01", "B02"}, title : {"t1", "t2"}]

\* "new_products = [p for p in products if p.get('asin', '') and
\* p.get('asin', '') not in existing_asins]"
NewProducts(products, existing_asins) ==
    SelectSeq(products,
              LAMBDA p : p.asin # "" /\ p.asin \notin existing_asins)

\* "Only add unique products based on ASIN" of one loop iteration on a
\* product page whose extract_products result is products
AddProducts ==
    /\ variant \in {"ecommerce", "cloud"}
    /\ pc = "call"
    /\ \E products \in SeqsUpTo(Products, MaxProducts) :
           LET existing_asins ==
                   {all_products[i].asin : i \in 1..Len(all_products)}
           IN  all_products' =
                   all_products \o NewProducts(products, existing_asins)
    /\ UNCHANGED <<sessionVars, prioritized, robots_text, scoring, twin,
                   fetch, pc, visited_urls, ecomVars, current, outcome,
                   fetch_count, robots_data, browserVars>>

-----------------------------------------------------------------------------
(* Specification *)

Variants == {"ecommerce", "cloud", "browser"}

\* the state after construction of the crawler object, with the arguments
\* of the crawl call to come
Init ==
    /\ variant \in Variants
    /\ pc = "idle"
    /\ max_pages \in 0..MaxPagesBound
    /\ max_depth \in -1..MaxDepthBound
    /\ visited_urls = {}
    /\ pages_data = <<>>
    /\ all_links = <<>>
    /\ urls_to_visit = <<>>
    /\ page_count = 0
    /\ current = NoEntry
    /\ outcome = "none"
    /\ fetch_count = [u \in AmazonHrefs \cup BrowserHrefs |-> 0]
    /\ robots_data = NoRobotsData
    /\ robots_rules = NoRules
    /\ urls_data = <<>>
    /\ links_data = <<>>
    /\ stack = <<>>
    /\ fetch = NoFetch
    /\ twin = NoTwin
    /\ prioritized = NoPrioritized
    /\ robots_text = <<>>
    /\ all_products = <<>>
    /\ scoring = NoScore

Next ==
    \/ E_Start
    \/ E_Skip
    \/ E_Visit
    \/ E_Finish
    \/ C_Start
    \/ C_Skip
    \/ C_Visit
    \/ C_Finish
    \/ B_ParseRobots
    \/ B_CrawlStart
    \/ B_FollowLink
    \/ B_Return
    \/ B_Finish

Spec == Init /\ [][Next]_vars

\* one crawl call on a fresh EcommerceCrawler; the sequential loop keeps
\* running until crawl returns
EcommerceInit == Init /\ variant = "ecommerce"

EcommerceNext ==
    \/ E_Start
    \/ E_Skip
    \/ E_Visit
    \/ E_Finish

EcommerceFairSpec ==
    EcommerceInit /\ [][EcommerceNext]_vars /\ WF_vars(EcommerceNext)

\* analyze_robots_txt may be called on the EcommerceCrawler before crawl
EcommerceRobotsNext ==
    \/ E_AnalyzeRobots
    \/ E_Start
    \/ E_Skip
    \/ E_Visit
    \/ E_Finish

EcommerceRobotsSpec == EcommerceInit /\ [][EcommerceRobotsNext]_vars

\* crawl calls, one after the other, on one BrowserCrawler object
BrowserInit == Init /\ variant = "browser"

BrowserReuseNext ==
    \/ B_ParseRobots
    \/ B_CrawlStart
    \/ B_FollowLink
    \/ B_Return
    \/ B_Finish
    \/ B_CrawlAgain

BrowserReuseSpec == BrowserInit /\ [][BrowserReuseNext]_vars

\* calls of _is_allowed on a BrowserCrawler that holds any rule set
IsAllowedInit ==
    /\ variant = "browser"
    /\ pc = "call"
    /\ max_pages = 0
    /\ max_depth = 0
    /\ visited_urls = {}
    /\ pages_data = <<>>
    /\ all_links = <<>>
    /\ urls_to_visit = <<>>
    /\ page_count = 0
    /\ current = NoEntry
    /\ outcome = "none"
    /\ fetch_count = [u \in AmazonHrefs \cup BrowserHrefs |-> 0]
    /\ robots_data = NoRobotsData
    /\ robots_rules \in RuleSets
    /\ urls_data = <<>>
    /\ links_data = <<>>
    /\ stack = <<>>
    /\ fetch = NoFetch
    /\ twin = NoTwin
    /\ prioritized = NoPrioritized
    /\ robots_text = <<>>
    /\ all_products = <<>>
    /\ scoring = NoScore

IsAllowedNext == B_IsAllowed

IsAllowedSpec == IsAllowedInit /\ [][IsAllowedNext]_vars

\* calls of fetch_page: by EcommerceCrawler.crawl and CloudCrawler.crawl for
\* an entry, and of JSDetector.fetch_page, against every behaviour of the
\* server over the attempts
FetchInit ==
    /\ variant \in {"ecommerce", "cloud", "js"}
    /\ pc = "call"
    /\ max_pages = 0
    /\ max_depth = 0
    /\ visited_urls = {}
    /\ pages_data = <<>>
    /\ all_links = <<>>
    /\ urls_to_visit = <<>>
    /\ page_count = 0
    /\ current = NoEntry
    /\ outcome = "none"
    /\ fetch_count = [u \in AmazonHrefs \cup BrowserHrefs |-> 0]
    /\ robots_data = NoRobotsData
    /\ robots_rules = NoRules
    /\ urls_data = <<>>
    /\ links_data = <<>>
    /\ stack = <<>>
    /\ fetch = NoFetch
    /\ twin = NoTwin
    /\ prioritized = NoPrioritized
    /\ robots_text = <<>>
    /\ all_products = <<>>
    /\ scoring = NoScore

FetchNext ==
    \/ E_FetchCall
    \/ E_FetchAttempt
    \/ C_FetchCall
    \/ C_FetchAttempt
    \/ J_FetchCall
    \/ J_FetchAttempt

FetchSpec == FetchInit /\ [][FetchNext]_vars

\* one crawl call on a site that carries links to the lookalike host
EcommerceLookalikeNext ==
    \/ E_Start
    \/ E_Skip
    \/ E_VisitLookalike
    \/ E_Finish

EcommerceLookalikeSpec == EcommerceInit /\ [][EcommerceLookalikeNext]_vars

\* two crawl calls with the same query and limits, one after the other, on
\* a site that answers both with the same pages
TwinInit ==
    /\ variant = "ecommerce"
    /\ pc = "runs"
    /\ max_pages \in 0..MaxPagesBound
    /\ max_depth \in -1..MaxDepthBound
    /\ visited_urls = {}
    /\ pages_data = <<>>
    /\ all_links = <<>>
    /\ urls_to_visit = <<>>
    /\ page_count = 0
    /\ current = NoEntry
    /\ outcome = "none"
    /\ fetch_count = [u \in AmazonHrefs \cup BrowserHrefs |-> 0]
    /\ robots_data = NoRobotsData
    /\ robots_rules = NoRules
    /\ urls_data = <<>>
    /\ links_data = <<>>
    /\ stack = <<>>
    /\ fetch = NoFetch
    /\ twin = TwinStart
    /\ prioritized = NoPrioritized
    /\ robots_text = <<>>
    /\ all_products = <<>>
    /\ scoring = NoScore

TwinNext ==
    \/ E_TwinIteration
    \/ E_TwinFinish

TwinSpec == TwinInit /\ [][TwinNext]_vars

\* scoring of any link list: calculate_pagerank and update_pagerank of
\* run_browser_crawler, EcommerceCrawler._calculate_pagerank
ScoreInit ==
    /\ variant \in {"ecommerce", "browser"}
    /\ pc = "call"
    /\ max_pages = 0
    /\ max_depth = 0
    /\ visited_urls = {}
    /\ pages_data = <<>>
    /\ all_links = <<>>
    /\ urls_to_visit = <<>>
    /\ page_count = 0
    /\ current = NoEntry
    /\ outcome = "none"
    /\ fetch_count = [u \in AmazonHrefs \cup BrowserHrefs |-> 0]
    /\ robots_data = NoRobotsData
    /\ robots_rules = NoRules
    /\ urls_data = <<>>
    /\ links_data = <<>>
    /\ stack = <<>>
    /\ fetch = NoFetch
    /\ twin = NoTwin
    /\ prioritized = NoPrioritized
    /\ robots_text = <<>>
    /\ all_products = <<>>
    /\ \E links \in SeqsUpTo(ScoreLinks, MaxEdges) :
           scoring = [NoScore EXCEPT !.phase = "call", !.links = links]

ScoreNext ==
    \/ S_CalculatePagerank
    \/ S_PowerIteration
    \/ S_PagerankReturn
    \/ S_UpdatePagerank

ScoreSpec == ScoreInit /\ [][ScoreNext]_vars

\* analyze_robots_txt on a fresh EcommerceCrawler or CloudCrawler
RobotsInit == Init /\ variant \in {"ecommerce", "cloud"}

RobotsNext ==
    \/ E_AnalyzeRobots
    \/ C_AnalyzeRobots

RobotsSpec == RobotsInit /\ [][RobotsNext]_vars

\* JSDetector.analyze_page(url) on a fresh detector
JSFetchInit == FetchInit /\ variant = "js"

JSFetchNext ==
    \/ J_FetchCall
    \/ J_FetchAttempt
    \/ J_AnalyzePage

JSFetchSpec == JSFetchInit /\ [][JSFetchNext]_vars

\* one crawl call of BrowserCrawler or EcommerceCrawler with a page budget
\* that lets a page be reached along two paths of different length
DeepInit ==
    /\ variant \in {"browser", "ecommerce"}
    /\ pc = "idle"
    /\ max_pages = MaxPagesDeep
    /\ max_depth = MaxDepthBound
    /\ visited_urls = {}
    /\ pages_data = <<>>
    /\ all_links = <<>>
    /\ urls_to_visit = <<>>
    /\ page_count = 0
    /\ current = NoEntry
    /\ outcome = "none"
    /\ fetch_count = [u \in AmazonHrefs \cup BrowserHrefs |-> 0]
    /\ robots_data = NoRobotsData
    /\ robots_rules = NoRules
    /\ urls_data = <<>>
    /\ links_data = <<>>
    /\ stack = <<>>
    /\ fetch = NoFetch
    /\ twin = NoTwin
    /\ prioritized = NoPrioritized
    /\ robots_text = <<>>
    /\ all_products = <<>>
    /\ scoring = NoScore

DeepNext ==
    \/ E_Start
    \/ E_Skip
    \/ E_VisitDeep
    \/ E_Finish
    \/ B_ParseRobots
    \/ B_CrawlStart
    \/ B_FollowLink
    \/ B_Return
    \/ B_Finish

DeepSpec == DeepInit /\ [][DeepNext]_vars

\* the prioritisation of the links of one page
PriorityInit ==
    /\ variant = "ecommerce"
    /\ pc = "call"
    /\ max_pages = MaxPagesBound
    /\ max_depth = MaxDepthBound
    /\ visited_urls = {}
    /\ pages_data = <<>>
    /\ all_links = <<>>
    /\ urls_to_visit = <<>>
    /\ page_count = 0
    /\ current = NoEntry
    /\ outcome = "none"
    /\ fetch_count = [u \in AmazonHrefs \cup BrowserHrefs |-> 0]
    /\ robots_data = NoRobotsData
    /\ robots_rules = NoRules
    /\ urls_data = <<>>
    /\ links_data = <<>>
    /\ stack = <<>>
    /\ fetch = NoFetch
    /\ twin = NoTwin
    /\ scoring = NoScore
    /\ prioritized = NoPrioritized
    /\ robots_text = <<>>
    /\ all_products = <<>>

PriorityNext == E_Prioritize

PrioritySpec == PriorityInit /\ [][PriorityNext]_vars

\* one crawl call of a fresh BrowserCrawler on a site whose robots document
\* is one of GroupRobotsDocs
BrowserGroupNext ==
    \/ B_ParseGroups
    \/ B_CrawlStart
    \/ B_FollowLink
    \/ B_Return
    \/ B_Finish

BrowserGroupSpec == BrowserInit /\ [][BrowserGroupNext]_vars

\* the product pages of one crawl of EcommerceCrawler or CloudCrawler
ProductsInit ==
    /\ variant \in {"ecommerce", "cloud"}
    /\ pc = "call"
    /\ max_pages = MaxPagesBound
    /\ max_depth = MaxDepthBound
    /\ visited_urls = {}
    /\ pages_data = <<>>
    /\ all_links = <<>>
    /\ urls_to_visit = <<>>
    /\ page_count = 0
    /\ current = NoEntry
    /\ outcome = "none"
    /\ fetch_count = [u \in AmazonHrefs \cup BrowserHrefs |-> 0]
    /\ robots_data = NoRobotsData
    /\ robots_rules = NoRules
    /\ urls_data = <<>>
    /\ links_data = <<>>
    /\ stack = <<>>
    /\ fetch = NoFetch
    /\ twin = NoTwin
    /\ scoring = NoScore
    /\ prioritized = NoPrioritized
    /\ robots_text = <<>>
    /\ all_products = <<>>

ProductsNext == AddProducts

ProductsSpec == ProductsInit /\ [][ProductsNext]_vars

\* one crawl call on a fresh BrowserCrawler; the coroutine keeps running
\* until crawl returns
BrowserFairNext ==
    \/ B_ParseRobots
    \/ B_CrawlStart
    \/ B_FollowLink
    \/ B_Return
    \/ B_Finish

BrowserFairSpec ==
    BrowserInit /\ [][BrowserFairNext]_vars /\ WF_vars(BrowserFairNext)

-----------------------------------------------------------------------------
(* Properties *)

Scheduled == variant \in {"ecommerce", "cloud"}

\* a step of the main loop of EcommerceCrawler.crawl / CloudCrawler.crawl
\* that runs one iteration
Iteration(v) == variant = v /\ pc = "loop" /\ pc' = "loop" /\ vars' # vars

NoDuplicateUrl(records) ==
    \A i, j \in 1..Len(records) : records[i].url = records[j].url => i = j

HasRecord(records, u) == \E i \in 1..Len(records) : records[i].url = u

\* C1: in EcommerceCrawler.crawl with max_pages = N > 0 the number of page
\* records in pages_data never exceeds N, also when iterations raise an
\* exception that the handler of the loop catches.
C1_PageRecordsWithinMaxPages ==
    (variant = "ecommerce" /\ max_pages > 0) => Len(pages_data) <= max_pages

\* C2: no two page records of one crawl session have the same url, in
\* pages_data of EcommerceCrawler and CloudCrawler and in urls_data of
\* BrowserCrawler; a url is fetched at most once.
C2_UniqueUrls ==
    /\ Scheduled => NoDuplicateUrl(pages_data)
    /\ variant = "browser" => NoDuplicateUrl(urls_data)
    /\ \A u \in DOMAIN fetch_count : fetch_count[u] <= 1

\* a url that sat twice in the frontier is dequeued again after its record
\* was made
C2_Witness ==
    /\ variant = "ecommerce"
    /\ outcome = "skipped"
    /\ current.url \in visited_urls
    /\ HasRecord(pages_data, current.url)

\* C3: every page record of EcommerceCrawler and BrowserCrawler has a level
\* of at most max_depth, and no url is fetched at a depth above max_depth.
C3_DepthBound ==
    /\ variant = "ecommerce" =>
           \A i \in 1..Len(pages_data) : pages_data[i].level <= max_depth
    /\ variant = "browser" =>
           \A i \in 1..Len(urls_data) : urls_data[i].level <= max_depth
    /\ (variant \in {"ecommerce", "browser"}
        /\ outcome \notin {"none", "skipped", "external"}) =>
           current.level <= max_depth

\* a page recorded at level max_depth carried links, and the crawl is over
C3_Witness ==
    /\ variant = "ecommerce"
    /\ pc = "done"
    /\ max_depth >= 1
    /\ \E i \in 1..Len(pages_data) :
           pages_data[i].level = max_depth /\ pages_data[i].outlinks > 0

\* C4: the main loop of EcommerceCrawler.crawl terminates for every sequence
\* of fetch successes, failures and caught exceptions.
C4_CrawlTerminates ==
    (variant = "ecommerce" /\ pc = "loop") ~> (pc \in {"done", "aborted"})

\* the crawl returned with an empty frontier although caught exceptions
\* kept page_count below max_pages
C4_Witness ==
    /\ variant = "ecommerce"
    /\ pc = "done"
    /\ urls_to_visit = <<>>
    /\ page_count < max_pages
    /\ Cardinality(visited_urls) >= 2

\* C5: each iteration of EcommerceCrawler.crawl removes exactly one entry
\* from the frontier: one of maximal priority, and the earliest inserted
\* among those; the entries that stay keep their order.
C5_DequeueMaxFifo ==
    [][Iteration("ecommerce") =>
         \E i \in 1..Len(urls_to_visit) :
             /\ urls_to_visit[i] = current'
             /\ \A k \in 1..Len(urls_to_visit) :
                    urls_to_visit[k].priority <= urls_to_visit[i].priority
             /\ \A k \in 1..(i - 1) :
                    urls_to_visit[k].priority < urls_to_visit[i].priority
             /\ Len(urls_to_visit') >= Len(urls_to_visit) - 1
             /\ SubSeq(urls_to_visit', 1, Len(urls_to_visit) - 1)
                    = RemoveAt(urls_to_visit, i)]_vars

\* the entry dequeued last was taken although another url of the same
\* priority, inserted later, was waiting (the iteration was a skip, so it
\* inserted nothing itself)
C5_Witness ==
    /\ variant = "ecommerce"
    /\ outcome = "skipped"
    /\ \E k \in 1..Len(urls_to_visit) :
           /\ urls_to_visit[k].priority = current.priority
           /\ urls_to_visit[k].url # current.url

\* C6: in EcommerceCrawler.crawl and CloudCrawler.crawl an iteration whose
\* entry is already visited or deeper than max_depth makes no page record,
\* fetches nothing and leaves visited_urls, the edge list and page_count
\* unchanged.
C6_SkipChangesNothing ==
    [][(Scheduled /\ pc = "loop" /\ pc' = "loop"
        /\ (current'.url \in visited_urls \/ current'.level > max_depth)) =>
           /\ pages_data' = pages_data
           /\ visited_urls' = visited_urls
           /\ all_links' = all_links
           /\ page_count' = page_count
           /\ fetch_count' = fetch_count]_vars

\* CloudCrawler dequeued an entry deeper than max_depth and skipped it
C6_Witness ==
    /\ variant = "cloud"
    /\ outcome = "skipped"
    /\ current.level > max_depth
    /\ Len(pages_data) >= 1

\* C7: in EcommerceCrawler.crawl an iteration whose fetch fails terminally
\* appends exactly one record with response_code 0 and an error message and
\* increases page_count by exactly one.
C7_FailedFetchCounted ==
    [][(Iteration("ecommerce")
        /\ outcome' \in {"failed", "failed_unsaved"}) =>
           /\ Len(pages_data') = Len(pages_data) + 1
           /\ pages_data'[Len(pages_data')].url = current'.url
           /\ pages_data'[Len(pages_data')].response_code = 0
           /\ pages_data'[Len(pages_data')].error
           /\ page_count' = page_count + 1]_vars

\* C8: in BrowserCrawler._crawl_page a url whose navigation fails is
\* recorded in urls_data.
C8_NavigationFailureRecorded ==
    (variant = "browser" /\ outcome = "raised") =>
        HasRecord(urls_data, current.url)

\* a rule matches every path that continues its prefix
PrefixRule(rule, path) ==
    \E n \in 0..Len(rule) :
        /\ \A k \in (n + 1)..Len(rule) : rule[k] = "*"
        /\ n > 0 => rule[n] # "*"
        /\ n <= Len(path)
        /\ \A k \in 1..n : path[k] = rule[k]

\* the path is disallowed: some disallow rule matches and no allow rule does
Disallows(allowed, disallowed, path) ==
    /\ \E i \in 1..Len(disallowed) : PrefixRule(disallowed[i], path)
    /\ ~\E i \in 1..Len(allowed) : PrefixRule(allowed[i], path)

\* C9: in BrowserCrawler every link of links_data whose target is
\* disallowed by the loaded robots rules carries disallow = true, and its
\* target is neither in visited_urls nor in urls_data.
C9_DisallowedNeverCrawled ==
    (variant = "browser" /\ robots_rules # NoRules) =>
        \A i \in 1..Len(links_data) :
            Disallows(robots_rules.allowed, robots_rules.disallowed,
                      UrlPath(links_data[i].target)) =>
                /\ links_data[i].disallow
                /\ links_data[i].target \notin visited_urls
                /\ ~HasRecord(urls_data, links_data[i].target)

\* the rule "/admin/*" is loaded, a link to "/admin/settings" was recorded,
\* and the crawl went on to other pages and returned
C9_Witness ==
    /\ variant = "browser"
    /\ pc = "done"
    /\ robots_rules # NoRules
    /\ robots_rules.allowed = <<>>
    /\ \E i \in 1..Len(robots_rules.disallowed) :
           robots_rules.disallowed[i] = AdminStar
    /\ \E i \in 1..Len(links_data) :
           links_data[i].target = AdminSettings /\ links_data[i].disallow
    /\ Len(urls_data) >= 2

\* C10: EcommerceCrawler.crawl never fetches or records a url that the
\* robots policy obtained by analyze_robots_txt disallows.
C10_RobotsCheckedAtDequeue ==
    (variant = "ecommerce" /\ robots_data # NoRobotsData) =>
        \A u \in AmazonUrls :
            Disallows(robots_data.allowed_paths, robots_data.disallowed_paths,
                      UrlPath(u)) =>
                fetch_count[u] = 0 /\ ~HasRecord(pages_data, u)

SeedDomainHost(u) ==
    LET h == Netloc(u) IN h # <<>> /\ h[Len(h)] = "amazon.com"

\* C12: every entry that an iteration of EcommerceCrawler.crawl appends to
\* the frontier has a url whose host belongs to amazon.com and that is not
\* in visited_urls, and a level one above the level of the page on which it
\* was found.
C12_InsertedEntriesInternal ==
    [][Iteration("ecommerce") =>
         \A k \in Len(urls_to_visit)..Len(urls_to_visit') :
             /\ SeedDomainHost(urls_to_visit'[k].url)
             /\ urls_to_visit'[k].url \notin visited_urls'
             /\ urls_to_visit'[k].level = current'.level + 1]_vars

\* the robots document holds no allow and no disallow line
NoParsableRule(doc) ==
    \A i \in 1..Len(doc) : doc[i].field \notin {"allow", "disallow"}

\* C13: when _parse_robots_txt could not reach the robots document, or the
\* document holds no rule, _is_allowed is true for every url in the crawl
\* that follows that call; the rules do not change while the crawl runs.
C13_UnreachableRobotsAllowsAll ==
    [][/\ \A doc \in RobotsDocs :
              (ParseRobots(FALSE, doc)
               \/ (NoParsableRule(doc) /\ ParseRobots(TRUE, doc)))
                  => \A u \in BrowserHrefs : IsAllowed(robots_rules', u)
       /\ (variant = "browser" /\ pc \in {"start", "loop"})
              => robots_rules' = robots_rules]_vars

\* the rule covers the path: the root rule covers every path, any other rule
\* covers the paths that continue it, trailing '*' set aside
RuleCovers(rule, path) == rule = <<"/">> \/ PrefixRule(rule, path)

\* the reference decision: allow rules first, then disallow rules, then the
\* default
ReferenceAllowed(allowed, disallowed, path) ==
    IF \E i \in 1..Len(allowed) : RuleCovers(allowed[i], path) THEN TRUE
    ELSE IF \E i \in 1..Len(disallowed) : RuleCovers(disallowed[i], path)
    THEN FALSE
    ELSE TRUE

AllResponses(f, kind) ==
    f.resps # <<>> /\ \A i \in 1..Len(f.resps) : f.resps[i] = kind

\* C15: when every request is answered with HTTP 503 (no challenge markers),
\* fetch_page of EcommerceCrawler and CloudCrawler makes exactly max_retries
\* attempts and returns the failure record with status 0; it never makes
\* more attempts than that.
C15_Permanent503ExhaustsRetries ==
    fetch.who \in {"ecommerce", "cloud"} =>
        /\ fetch.requests <= max_retries
        /\ (fetch.phase = "done" /\ AllResponses(fetch, "http503")) =>
               /\ fetch.requests = max_retries
               /\ fetch.result = "failure"
               /\ fetch.status = 0

\* C16: when all max_retries attempts of fetch_page of EcommerceCrawler or
\* CloudCrawler are answered with a challenge page, the result is the
\* failure record with status 0, not a page record.
C16_ChallengeExhaustionFails ==
    (/\ fetch.who \in {"ecommerce", "cloud"}
     /\ fetch.phase = "done"
     /\ Len(fetch.resps) = max_retries
     /\ AllResponses(fetch, "challenge")) =>
        fetch.result = "failure" /\ fetch.status = 0

\* C17: EcommerceCrawler.fetch_page never raises: it returns a page record
\* or the failure record with response_code 0, for every delay_range crawl
\* passes and every behaviour of the transport.
C17_FetchPageNeverRaises ==
    (fetch.who = "ecommerce" /\ fetch.phase = "done") =>
        \/ fetch.result = "page"
        \/ fetch.result = "failure" /\ fetch.status = 0

\* C18: every delay slept before a fetch that EcommerceCrawler.crawl issues
\* lies within the delay_range the caller configured.
C18_DelayWithinConfiguredRange ==
    (fetch.who = "ecommerce" /\ fetch.slept) =>
        fetch.range.lo <= fetch.delay /\ fetch.delay <= fetch.range.hi

\* C19: in EcommerceCrawler.fetch_page and JSDetector.fetch_page the wait
\* after failed attempt k, before jitter, is retry_delay * 2^(k-1), for
\* every retried condition: transient status, timeout, connection error,
\* other exception, challenge page.
C19_BackoffDoubles ==
    fetch.who \in {"ecommerce", "js"} =>
        \A i \in 1..Len(fetch.waits) :
            fetch.waits[i].cond \in {"http503", "timeout", "connection_error",
                                     "other_exception", "challenge"} =>
                fetch.waits[i].wait = retry_delay * Pow2(fetch.waits[i].k - 1)

\* s is an initial segment of t
IsPrefix(s, t) == Len(s) <= Len(t) /\ SubSeq(t, 1, Len(s)) = s

\* C20: an error raised while one url is processed never aborts
\* EcommerceCrawler.crawl: the iteration leaves the loop running and keeps
\* the page records and link edges gathered so far, and crawl ends by
\* returning its result, never by an exception.
C20_ErrorNeverAbortsCrawl ==
    /\ [](variant = "ecommerce" => pc # "aborted")
    /\ [][Iteration("ecommerce") =>
            /\ IsPrefix(pages_data, pages_data')
            /\ IsPrefix(all_links, all_links')]_vars

\* C21: a crawl call with a non-positive max_pages, on EcommerceCrawler or
\* BrowserCrawler, is rejected at session start: it never returns the
\* ordinary result (with 0 pages) of a call that ran.
C21_NonPositiveMaxPagesRejected ==
    (variant \in {"ecommerce", "browser"} /\ max_pages <= 0) => pc # "done"

\* C22: in EcommerceCrawler.crawl the records of pages_data stand in the
\* order in which their entries were dequeued: an iteration adds at most one
\* record, at the end, and it is the record of the entry this iteration
\* dequeued, an entry of maximal priority of the frontier wherever it was
\* inserted.
C22_RecordsInDequeueOrder ==
    [][Iteration("ecommerce") =>
         \/ pages_data' = pages_data
         \/ /\ Len(pages_data') = Len(pages_data) + 1
            /\ IsPrefix(pages_data, pages_data')
            /\ pages_data'[Len(pages_data')].url = current'.url
            /\ pages_data'[Len(pages_data')].level = current'.level
            /\ \E i \in 1..Len(urls_to_visit) :
                   /\ urls_to_visit[i] = current'
                   /\ \A k \in 1..Len(urls_to_visit) :
                          urls_to_visit[k].priority <= current'.priority]_vars

\* the search page linked to the second search page first and to the
\* product page after it; the product page was recorded first
C22_Witness ==
    /\ variant = "ecommerce"
    /\ Len(pages_data) = 2
    /\ pages_data[1].url = search_url
    /\ pages_data[2].url = Dp1
    /\ Len(all_links) >= 2
    /\ all_links[1].source = search_url /\ all_links[1].target = Search2
    /\ all_links[2].source = search_url /\ all_links[2].target = Dp1
    /\ \E k \in 1..Len(urls_to_visit) : urls_to_visit[k].url = Search2

\* C23: two calls of EcommerceCrawler.crawl with the same query and limits,
\* which find on every page the same links with the same priorities and
\* never meet a tie of priorities, visit the same urls in the same order.
C23_SameEdgesSameVisitOrder ==
    (/\ twin # NoTwin
     /\ twin.runs[1].pc = "done" /\ twin.runs[2].pc = "done"
     /\ ~twin.runs[1].ties /\ ~twin.runs[2].ties)
        => twin.runs[1].order = twin.runs[2].order

\* C24: in all three crawlers a url is put into visited_urls before its
\* fetch is started: every url for which fetch_page or page.goto has been
\* called is in visited_urls, whatever the fetch did.
C24_VisitedBeforeFetch ==
    \A u \in DOMAIN fetch_count : fetch_count[u] > 0 => u \in visited_urls

\* a fetch raised and left no record; its url is marked all the same
C24_Witness ==
    /\ outcome = "raised"
    /\ fetch_count[current.url] = 1
    /\ current.url \in visited_urls
    /\ variant = "browser" => ~HasRecord(urls_data, current.url)
    /\ variant # "browser" => ~HasRecord(pages_data, current.url)

\* C25: for max_pages >= 1 the frontier urls_to_visit of
\* EcommerceCrawler.crawl never holds more than 2 * max_pages entries,
\* however many links the crawled pages carry.
C25_FrontierCapped ==
    (variant = "ecommerce" /\ max_pages >= 1)
        => Len(urls_to_visit) <= 2 * max_pages

\* the frontier is full and one of the links of the page crawled last, to
\* a url not visited and within max_depth, was left out of it
C25_Witness ==
    /\ variant = "ecommerce"
    /\ max_pages >= 1
    /\ Len(urls_to_visit) = 2 * max_pages
    /\ outcome \in {"page", "page_unsaved"}
    /\ current.level + 1 <= max_depth
    /\ \E t \in AmazonUrls \ visited_urls :
           Cardinality({k \in 1..Len(urls_to_visit) :
                           /\ urls_to_visit[k].url = t
                           /\ urls_to_visit[k].referer = current.url})
               < Cardinality({i \in 1..Len(all_links) :
                                 /\ all_links[i].source = current.url
                                 /\ all_links[i].target = t})

\* number of entries of the edge list links that go from s to t
EdgeCount(links, s, t) ==
    Cardinality({i \in 1..Len(links) :
                    links[i].source = s /\ links[i].target = t})

\* every edge of the list links is an edge of its graph exactly once
EachEdgeOnce(links) ==
    LET G == DiGraph(links)
    IN  \A i \in 1..Len(links) :
            Cardinality({k \in 1..Len(G.edges) :
                            G.edges[k] = <<links[i].source, links[i].target>>})
                = 1

\* C26: anchors with the same source and target stay separate entries of
\* the edge list of the session (all_links, links_data): the list holds one
\* entry per extracted link of every page; the directed graph built from
\* the list for PageRank holds each of these edges exactly once.
C26_DuplicateEdgesCountOnce ==
    /\ variant = "ecommerce" =>
           /\ EachEdgeOnce(all_links)
           /\ \A i \in 1..Len(pages_data) :
                  Cardinality({k \in 1..Len(all_links) :
                                  all_links[k].source = pages_data[i].url})
                      = pages_data[i].outlinks
    /\ variant = "browser" =>
           /\ EachEdgeOnce(links_data)
           /\ \A i \in 1..Len(stack) :
                  Cardinality({k \in 1..Len(links_data) :
                                  links_data[k].source = stack[i].url})
                      = Len(stack[i].links)

\* a page carried the same anchor twice: the edge list of the returned
\* result holds the edge twice
C26_Witness ==
    /\ pc = "done"
    /\ \/ variant = "ecommerce" /\ EdgeCount(all_links, search_url, Dp1) = 2
       \/ variant = "browser" /\ EdgeCount(links_data, start_url, PageA) = 2

\* the chain A -> B -> C, C without outgoing edge
ChainLinks ==
    <<[source |-> start_url, target |-> PageA],
      [source |-> PageA, target |-> OtherC]>>

\* C29: PageRank keeps the total score at 1, also with nodes that have no
\* outgoing edge: for every finite link list the scores that are returned
\* sum to 1, and on the chain A -> B -> C the score of C is not zero.
C29_PageRankSumsToOne ==
    scoring.phase = "scored" =>
        /\ SumOver(scoring.G.nodes, scoring.pagerank.num) = scoring.pagerank.den
        /\ scoring.links = ChainLinks => scoring.pagerank.num[OtherC] > 0

\* C29 as amended: for every link list that is not empty the scores of the
\* nodes sum to 1, at every iteration and in the returned vector, and on
\* the chain A -> B -> C the score of C is not zero.
C29_NonEmptyPageRankSumsToOne ==
    (scoring.links # <<>>
     /\ scoring.phase \in {"iterating", "scored", "attached"}) =>
        /\ SumOver(scoring.G.nodes, scoring.x.num) = scoring.x.den
        /\ scoring.phase # "iterating" => scoring.pagerank = scoring.x
        /\ scoring.links = ChainLinks => scoring.x.num[OtherC] > 0

\* the chain was scored: C, which has no outgoing edge, holds a larger
\* score than A, and the scores sum to 1
C29_Witness ==
    /\ scoring.phase = "scored"
    /\ scoring.links = ChainLinks
    /\ scoring.pagerank.num[OtherC] > scoring.pagerank.num[start_url]
    /\ SumOver(scoring.G.nodes, scoring.pagerank.num) = scoring.pagerank.den

\* C28: scoring is total: the empty link list yields the empty score map,
\* and when scores are attached to the rows of the urls file every row
\* whose url is no node of the graph gets 0 and every other row gets the
\* score the map holds for its url.
C28_ScoringTotal ==
    /\ scoring.phase \in {"idle", "call", "iterating", "scored", "attached",
                          "skipped"}
    /\ (scoring.links = <<>> /\ scoring.phase \in {"scored", "skipped"})
           => scoring.pagerank = NoVector
    /\ scoring.phase = "attached" =>
           \A i \in 1..Len(scoring.rows) :
               LET row == scoring.rows[i]
               IN  IF row.url \in Elems(scoring.G.nodes)
                   THEN row.pagerank = [num |-> scoring.pagerank.num[row.url],
                                        den |-> scoring.pagerank.den]
                   ELSE row.pagerank = Zero

\* scores were attached to a file that holds a page of the graph and a page
\* that no link of the list touches
C28_Witness ==
    /\ scoring.phase = "attached"
    /\ \E i, j \in 1..Len(scoring.rows) :
           /\ scoring.rows[i].url \notin Elems(scoring.G.nodes)
           /\ scoring.rows[i].pagerank = Zero
           /\ scoring.rows[j].url \in Elems(scoring.G.nodes)
           /\ scoring.rows[j].pagerank.num > 0

\* C27: when EcommerceCrawler.crawl has returned, every record of the
\* returned pages whose url is a node of the link graph carries in its
\* pagerank field the score _calculate_pagerank computed for that url.
C27_ReturnedPagesCarryPageRank ==
    (variant = "ecommerce" /\ pc = "done") =>
        LET G == DiGraph(all_links)
            pr == PageRank(G)
        IN  \A i \in 1..Len(pages_data) :
                pages_data[i].url \in Elems(G.nodes) =>
                    /\ ~pages_data[i].error
                    /\ pages_data[i].pagerank * pr.den
                           = pr.num[pages_data[i].url]

\* C30: when robots.txt cannot be fetched (a status other than 200, or an
\* exception of the request) analyze_robots_txt of EcommerceCrawler and of
\* CloudCrawler returns a policy without disallowed paths and with the
\* crawlability score 100.
C30_UnfetchableRobotsPermissive ==
    (robots_data # NoRobotsData /\ robots_data.status = "error") =>
        /\ robots_data.disallowed_paths = <<>>
        /\ robots_data.crawlability_score = 100 * Scale

\* responses with status code 200
Is200(resp) == resp \in {"ok", "challenge", "empty200"}

\* responses JSDetector.fetch_page treats as transient: status 429, 500,
\* 502, 503 or 504, requests.Timeout, requests.ConnectionError
IsTransient(resp) == resp \in {"http503", "timeout", "connection_error"}

\* C31: JSDetector.fetch_page issues at most max_retries requests, returns
\* True on the first 200 response, raises after exactly max_retries requests
\* when every one ended with a transient status, a timeout or a connection
\* error; analyze_page turns the exception into a result with status
\* 'error'.
C31_BoundedRetryLoop ==
    fetch.who = "js" =>
        /\ fetch.requests <= max_retries
        /\ \A i \in 1..Len(fetch.resps) :
               Is200(fetch.resps[i]) =>
                   /\ i = Len(fetch.resps)
                   /\ fetch.phase \in {"done", "analyzed"}
                   /\ fetch.result = "true"
        /\ (/\ fetch.phase \in {"done", "analyzed"}
            /\ \A i \in 1..Len(fetch.resps) : IsTransient(fetch.resps[i])) =>
               fetch.result = "raised" /\ fetch.requests = max_retries
        /\ (fetch.phase = "analyzed" /\ fetch.result = "raised") =>
               fetch.analysis = "error"

\* C32: on a status that is neither 200 nor transient (404, 403)
\* JSDetector.fetch_page issues exactly one request and fails at once,
\* without a backoff sleep and without further attempts.
C32_NonTransientStatusNotRetried ==
    (fetch.who = "js" /\ fetch.resps # <<>> /\ fetch.resps[1] = "http404") =>
        /\ fetch.requests = 1
        /\ fetch.waits = <<>>
        /\ fetch.phase \in {"done", "analyzed"}
        /\ fetch.result = "raised"

\* C33: each call of BrowserCrawler.crawl runs on a fresh session: what an
\* earlier call left on the crawler does not influence what a later call
\* visits.  Whenever crawl starts with a positive max_pages, a max_depth of
\* at least 0 and rules that allow the start url, the start url is fetched.
C33_CrawlStartsFresh ==
    [][(/\ pc = "start" /\ pc' = "loop"
        /\ variant = "browser"
        /\ max_pages >= 1 /\ max_depth >= 0
        /\ IsAllowed(robots_rules, start_url))
           => (outcome' # "skipped" /\ fetch_count'[start_url] =
                                           fetch_count[start_url] + 1)]_vars

\* C34: for every page _crawl_page fetches and records, whatever its depth,
\* all outbound links of the page are appended to links_data.
C34_OutLinksOfEveryRecordedPage ==
    [][(variant = "browser" /\ outcome' = "page"
        /\ Len(urls_data') = Len(urls_data) + 1)
           => links_data' =
                  links_data \o browser_extract_links(current'.anchors,
                                                      current'.url,
                                                      robots_rules)]_vars

\* the edge set of a list of link records
Edges(links) == {<<links[i].source, links[i].target>> : i \in 1..Len(links)}

\* the nodes reached from the set S by at most k edges
RECURSIVE Within(_, _, _)
Within(E, S, k) ==
    IF k = 0 THEN S
    ELSE Within(E, S \cup {e[2] : e \in {x \in E : x[1] \in S}}, k - 1)

\* k is the length of a shortest path from s to t
DistanceIs(E, s, t, k) ==
    /\ t \in Within(E, {s}, k)
    /\ k = 0 \/ t \notin Within(E, {s}, k - 1)

\* C35: the depth (level) stored in each page record is the length of a
\* shortest link path from the seed url to the page in the crawled link
\* graph, in BrowserCrawler and in EcommerceCrawler.
C35_LevelIsDistanceFromSeed ==
    /\ (variant = "browser" /\ pc = "done") =>
           \A i \in 1..Len(urls_data) :
               DistanceIs(Edges(links_data), start_url, urls_data[i].url,
                          urls_data[i].level)
    /\ (variant = "ecommerce" /\ pc = "done") =>
           \A i \in 1..Len(pages_data) :
               DistanceIs(Edges(all_links), search_url, pages_data[i].url,
                          pages_data[i].level)

\* the pattern classes of the claim, first matching class first
PatternBase(url) ==
    CASE Contains(url, <<"/dp/">>) -> 80
      [] ~Contains(url, <<"/dp/">>) /\ Contains(url, <<"/s?k=">>) -> 70
      [] Contains(url, <<"/gp/bestsellers/">>) -> 60
      [] Contains(url, <<"/gp/new-releases/">>) -> 50
      [] Contains(url, <<"/gp/goldbox/">>) -> 40
      [] OTHER -> 10

\* the score of the page the links were found on, in hundredths
ParentScore(pg) ==
    pg.nproducts * 10 * Scale + Min(pg.title_len, 100) * 10
        + Min(pg.desc_len, 200) * 5

\* the priority the claim states for a link, in hundredths
StatedPriority(url, penalised, pg, depth) ==
    PatternBase(url) * Scale
        + Min(ParentScore(pg) \div 5, 20 * Scale)
        - 10 * depth * Scale
        - (IF penalised THEN 30 * Scale ELSE 0)

\* C36: the priority of a discovered link is base(pattern class of the
\* target) + min(0.2 * parent page score, 20) - 10 * parent depth - (30 if
\* the link is nofollow or disallowed); the same value is stored on the link
\* edge and on the frontier entry.
C36_PriorityFormula ==
    prioritized # NoPrioritized =>
        /\ Len(prioritized.prioritized_links) = Len(prioritized.all_links)
        /\ \A i \in 1..Len(prioritized.all_links) :
               LET edge == prioritized.all_links[i]
                   entry == prioritized.prioritized_links[i]
               IN  /\ entry.url = edge.target
                   /\ entry.priority = edge.priority
                   /\ entry.level = prioritized.level + 1
                   /\ edge.priority =
                          StatedPriority(edge.target,
                                         edge.nofollow \/ edge.disallow,
                                         prioritized.page, prioritized.level)

\* a nofollow link to a url that matches the product and the search pattern,
\* found at depth 2 on a page whose score exceeds the cap of the bonus
C36_Witness ==
    /\ prioritized # NoPrioritized
    /\ prioritized.level = 2
    /\ ParentScore(prioritized.page) > 100 * Scale
    /\ \E i \in 1..Len(prioritized.all_links) :
           /\ prioritized.all_links[i].target = DpInSearch
           /\ prioritized.all_links[i].nofollow
           /\ prioritized.all_links[i].priority = 50 * Scale

\* C37: an empty "Disallow:" directive in the applicable group does not
\* make _is_allowed reject a url: a start url that no non-empty disallow
\* rule matches is crawled.
C37_EmptyDisallowRejectsNothing ==
    [][(/\ variant = "browser"
        /\ pc = "start" /\ pc' = "loop"
        /\ max_pages >= 1 /\ max_depth >= 0
        /\ robots_rules # NoRules
        /\ \A i \in 1..Len(robots_rules.disallowed) :
               robots_rules.disallowed[i] # <<>> =>
                   ~RuleMatches(robots_rules.disallowed[i],
                                UrlPath(start_url)))
           => outcome' # "skipped"]_vars

\* the agents of the group a rule line stands in: the values of the run of
\* consecutive user-agent lines that precedes the rules of the group
RECURSIVE GroupAgents(_, _, _, _)
GroupAgents(doc, i, agents, open) ==
    IF i = 0 THEN agents
    ELSE IF doc[i].field = "user-agent"
    THEN GroupAgents(doc, i - 1, agents \cup {doc[i].value}, TRUE)
    ELSE IF open THEN agents
    ELSE GroupAgents(doc, i - 1, agents, FALSE)

\* the rule lines of a field that stand in a group naming '*' or the
\* crawler's agent
RECURSIVE GroupRules(_, _, _)
GroupRules(doc, field, i) ==
    IF i > Len(doc) THEN <<>>
    ELSE IF /\ doc[i].field = field
            /\ GroupAgents(doc, i - 1, {}, FALSE) \cap {<<"*">>, <<"Crowl">>}
                   # {}
    THEN <<doc[i].value>> \o GroupRules(doc, field, i + 1)
    ELSE GroupRules(doc, field, i + 1)

\* C38: _parse_robots_txt keeps an allow or disallow rule if and only if
\* the rule stands in a user-agent group that names '*' or the crawler's
\* agent, also when the group lists several User-agent lines.
C38_RulesOfMatchingGroupsKept ==
    (variant = "browser" /\ robots_rules # NoRules) =>
        /\ robots_rules.allowed = GroupRules(robots_text, "allow", 1)
        /\ robots_rules.disallowed = GroupRules(robots_text, "disallow", 1)

\* C39: all_products of EcommerceCrawler and CloudCrawler holds no two
\* products with the same ASIN and no product with an empty ASIN, also when
\* one page lists an ASIN more than once.
C39_ProductsUniqueByAsin ==
    variant \in {"ecommerce", "cloud"} =>
        /\ \A i, j \in 1..Len(all_products) :
               all_products[i].asin = all_products[j].asin => i = j
        /\ \A i \in 1..Len(all_products) : all_products[i].asin # ""

\* visited_urls and urls_data of BrowserCrawler stay within the page budget
BrowserWithinBudget ==
    /\ Cardinality(visited_urls) <= max_pages
    /\ \A i \in 1..Len(urls_data) : urls_data[i].url \in visited_urls
    /\ Len(urls_data) <= max_pages

\* C40: in every state of the recursive crawl of BrowserCrawler the size of
\* visited_urls is at most max_pages, every record of urls_data has its url
\* in visited_urls, the number of records is at most max_pages, and the
\* recursion terminates.
C40_BrowserBudgetAndTermination ==
    [](variant = "browser" => BrowserWithinBudget) /\ <>(pc = "done")

\* a call returned at the budget test: the budget is used up and the url it
\* was called for has not been visited
C40_Witness ==
    /\ variant = "browser"
    /\ pc = "loop"
    /\ max_pages >= 1
    /\ Cardinality(visited_urls) = max_pages
    /\ Len(urls_data) = max_pages
    /\ outcome = "skipped"
    /\ current.url \notin visited_urls
    /\ IsAllowed(robots_rules, current.url)
    /\ current.level <= max_depth

====
